---- MODULE Spec2Model ----
(***************************************************************************)
(* Fee-adjustment engine of feemarketsim: the EIP-1559, AIMD and PID       *)
(* adjusters, the tactical (SequencerFastPID) and strategic                *)
(* (BatcherSlowPID) layers and their parameter-update channels.            *)
(*                                                                         *)
(* Every adjuster is a record holding the fields of the Go struct; every   *)
(* method is an operator from the record (and its arguments) to the record *)
(* after the call, and an action applies it to the adjuster under check.   *)
(*                                                                         *)
(* float64 values are fixed-point integers counted in 1/FloatUnit; a       *)
(* float64 product is rescaled by a truncating division, and the           *)
(* conversion uint64(float64) truncates, as in Go.                         *)
(***************************************************************************)
EXTENDS Integers, Sequences, FiniteSets, TLC

VARIABLES
    adjuster, \* the FeeAdjuster under check (a record of the struct's fields)
    now,      \* the wall clock read by time.Now()
    fed,      \* gasUsed inputs since construction or the last Reset
    processed, \* ProcessBlock calls so far
    sent,     \* parameter updates passed to SendParameterUpdate, in order
    sentAtReset, \* the number of updates sent when Reset was last called
    lastOp,   \* the last call made by the caller
    resets,   \* Reset calls so far
    before,   \* what the adjuster held when the last call was made
    panicked, \* a call has panicked: the program has stopped
    caller,   \* the slice the caller got from its last GetBlocks call
    fetcher,  \* the BlockFetcher and the position of its FetchRange call
    goroutines \* goroutines calling one tactical layer, and its RWMutex

\* the variables of the fee-adjustment engine
simulatorVars ==
    <<adjuster, now, fed, processed, sent, sentAtReset, lastOp, resets, before,
      panicked, caller>>

vars == <<simulatorVars, fetcher, goroutines>>

-----------------------------------------------------------------------------
(* Bounds of the model *)

\* ProcessBlock calls in a run
MaxBlocks == 4
\* ProcessBlock is not called on a base fee above this
MaxBaseFee == 1000000000
\* Reset calls in a run
MaxResets == 1

\* SendParameterUpdate calls in a run of the layers
MaxSends == 2
\* clock ticks in a run
MaxTime == 1
\* ProcessBlock calls in a long run
MaxSteadyBlocks == 12
\* SendParameterUpdate calls in a long run
MaxBurstSends == 12
\* throttling updates sent to the tactical layer
MaxThrottleSends == 1
\* blocks of a fetched range, and rounds FetchRange may take
MaxFetchBlocks == 3
MaxFetchRounds == 2

-----------------------------------------------------------------------------
(* Arithmetic *)

\* one float64 unit (1.0) in fixed point
FloatUnit == 1000

\* F of the value of x: x is evaluated once, however often F uses it
Bind(x, F(_)) == CHOOSE r \in {F(v) : v \in {x}} : TRUE

Abs(x) == IF x < 0 THEN -x ELSE x

Min2(a, b) == IF a < b THEN a ELSE b

Max2(a, b) == IF a > b THEN a ELSE b

\* Go's integer division and float-to-integer conversion truncate toward zero
TruncDiv(a, b) == IF a >= 0 THEN a \div b ELSE -((-a) \div b)

\* Go's integer division of signed operands: the quotient truncated toward
\* zero
TruncDivSigned(a, b) ==
    LET q == (IF a >= 0 THEN a ELSE -a) \div (IF b >= 0 THEN b ELSE -b)
    IN  IF (a >= 0) = (b >= 0) THEN q ELSE -q

\* <<q, r>> with a * b = q * c + r and 0 <= r < c, for a, b >= 0 and c > 0,
\* by doubling, so that no intermediate exceeds max(q, 3 * c)
RECURSIVE MulDivMod(_, _, _)
MulDivMod(a, b, c) ==
    IF b = 0 THEN <<0, 0>>
    ELSE Bind(MulDivMod(a, b \div 2, c), LAMBDA h :
         Bind(2 * h[2] + (b % 2) * (a % c), LAMBDA x :
         <<2 * h[1] + (b % 2) * (a \div c) + (x \div c), x % c>>))

\* a * b / c in Go's signed integer arithmetic (truncating), a >= 0, c > 0
MulDiv(a, b, c) ==
    IF b >= 0 THEN MulDivMod(a, b, c)[1] ELSE -(MulDivMod(a, -b, c)[1])

\* <<q, r>> with a * b = q * c + r and 0 <= r < c, for a >= 0, c > 0, any b
MulFloorDivMod(a, b, c) ==
    IF b >= 0 THEN MulDivMod(a, b, c)
    ELSE Bind(MulDivMod(a, -b, c), LAMBDA m :
         IF m[2] = 0 THEN <<-m[1], 0>> ELSE <<-m[1] - 1, c - m[2]>>)

\* float64 product of two fixed-point values
FMul(a, b) == TruncDiv(a * b, FloatUnit)

\* uint64(float64(baseFee) * (1 + factor) + extra) before the minimum is
\* applied: the floor of the real value (negative when the real value is),
\* factor and extra in fixed point
ScaleBaseFee(baseFee, factor, extra) ==
    LET eq == extra \div FloatUnit
        er == extra % FloatUnit
    IN  Bind(MulFloorDivMod(baseFee, factor, FloatUnit), LAMBDA p :
        baseFee + p[1] + eq + ((p[2] + er) \div FloatUnit))

\* float64 quotient of two integers, as a fixed-point value
FDiv(a, b) == MulDiv(FloatUnit, a, b)

SeqSum(s) ==
    LET RECURSIVE sum(_)
        sum(i) == IF i = 0 THEN 0 ELSE s[i] + sum(i - 1)
    IN  sum(Len(s))

-----------------------------------------------------------------------------
(* Shared helpers (adjuster.go) *)

Block(number, gasUsed, baseFee) ==
    [Number |-> number, GasUsed |-> gasUsed, BaseFee |-> baseFee]

State(baseFee, learningRate, targetUtilization, burstUtilization) ==
    [BaseFee |-> baseFee, LearningRate |-> learningRate,
     TargetUtilization |-> targetUtilization,
     BurstUtilization |-> burstUtilization]

CalculateMaxBlockSize(targetBlockSize, burstMultiplier) ==
    MulDiv(targetBlockSize, burstMultiplier, FloatUnit)

\* the last windowSize blocks (all of them when there are fewer)
Window(blocks, windowSize) ==
    LET windowStart == Max2(Len(blocks) - windowSize, 0)
    IN  SubSeq(blocks, windowStart + 1, Len(blocks))

SumBlockSizesInWindow(blocks, windowSize) ==
    LET w == Window(blocks, windowSize)
    IN  SeqSum([i \in 1..Len(w) |-> w[i].GasUsed])

NetGasDelta(blocks, windowSize, targetBlockSize) ==
    LET w == Window(blocks, windowSize)
    IN  SeqSum([i \in 1..Len(w) |-> w[i].GasUsed - targetBlockSize])

CalculateTargetUtilization(blocks, windowSize, targetBlockSize) ==
    IF Len(blocks) < windowSize THEN 0
    ELSE FDiv(SumBlockSizesInWindow(blocks, windowSize),
              windowSize * targetBlockSize)

CalculateBurstUtilization(blocks, windowSize, maxBlockSize) ==
    IF Len(blocks) < windowSize THEN 0
    ELSE FDiv(SumBlockSizesInWindow(blocks, windowSize),
              windowSize * maxBlockSize)

ClampFloat64(value, min, max) ==
    IF value < min THEN min
    ELSE IF value > max THEN max
    ELSE value

-----------------------------------------------------------------------------
(* EIP-1559 adjuster (adjuster.go) *)

DefaultEIP1559Config ==
    [TargetBlockSize |-> 15000000, BurstMultiplier |-> 2 * FloatUnit,
     InitialBaseFee |-> 1000000000, MinBaseFee |-> 0, MaxFeeChange |-> 125]

NewEIP1559FeeAdjuster(cfg) ==
    [type |-> "eip1559", config |-> cfg, blocks |-> <<>>, baseFee |-> cfg.InitialBaseFee]

EIP1559GetMaxBlockSize(fa) ==
    CalculateMaxBlockSize(fa.config.TargetBlockSize, fa.config.BurstMultiplier)

\* adjustBaseFeeEIP1559 with flooring instead of truncating divisions
adjustBaseFeeEIP1559_Floor(baseFee, gasUsed, targetGas, minBaseFee) ==
    IF gasUsed = targetGas THEN baseFee
    ELSE LET gasUsedDelta == gasUsed - targetGas
             baseFeeChange ==
                 MulFloorDivMod(baseFee, gasUsedDelta, targetGas)[1] \div 8
             newBaseFee == baseFee + baseFeeChange
         IN  IF newBaseFee < minBaseFee THEN minBaseFee ELSE newBaseFee

\* the base fee after adjustBaseFeeEIP1559(gasUsed)
adjustBaseFeeEIP1559(baseFee, gasUsed, targetGas, minBaseFee) ==
    IF gasUsed = targetGas THEN baseFee
    ELSE LET gasUsedDelta == gasUsed - targetGas
             baseFeeChange ==
                 TruncDiv(MulDiv(baseFee, gasUsedDelta, targetGas), 8)
             newBaseFee == baseFee + baseFeeChange
         IN  IF newBaseFee < minBaseFee THEN minBaseFee ELSE newBaseFee

\* adjustBaseFeeEIP1559 divides the int64 product by int64(targetGas): with a
\* zero target and a block that is not empty the division panics
\* (integer divide by zero)
adjustBaseFeeEIP1559Panics(gasUsed, targetGas) ==
    gasUsed # targetGas /\ targetGas = 0

\* the adjuster when ProcessBlock panics: the block is already appended
EIP1559ProcessBlockUntilPanic(fa, gasUsed) ==
    [fa EXCEPT
        !.blocks = Append(fa.blocks,
                          Block(Len(fa.blocks) + 1, gasUsed, fa.baseFee))]

EIP1559ProcessBlock(fa, gasUsed) ==
    [fa EXCEPT
        !.blocks = Append(fa.blocks,
                          Block(Len(fa.blocks) + 1, gasUsed, fa.baseFee)),
        !.baseFee = adjustBaseFeeEIP1559(fa.baseFee, gasUsed,
                        fa.config.TargetBlockSize, fa.config.MinBaseFee)]

EIP1559GetCurrentState(fa) ==
    IF Len(fa.blocks) > 0
    THEN LET lastBlock == fa.blocks[Len(fa.blocks)]
         IN  State(fa.baseFee, fa.config.MaxFeeChange,
                   FDiv(lastBlock.GasUsed, fa.config.TargetBlockSize),
                   FDiv(lastBlock.GasUsed, EIP1559GetMaxBlockSize(fa)))
    ELSE State(fa.baseFee, fa.config.MaxFeeChange, 0, 0)

EIP1559Reset(fa) ==
    [fa EXCEPT !.blocks = <<>>, !.baseFee = fa.config.InitialBaseFee]

-----------------------------------------------------------------------------
(* AIMD adjuster *)

DefaultAIMDConfig ==
    [TargetBlockSize |-> 15000000, BurstMultiplier |-> 2 * FloatUnit,
     InitialBaseFee |-> 1000000000, MinBaseFee |-> 0,
     WindowSize |-> 10, Gamma |-> 250, InitialLearningRate |-> 100,
     MaxLearningRate |-> 500, MinLearningRate |-> 1, Alpha |-> 10,
     Beta |-> 900, Delta |-> 0]

NewAIMDFeeAdjuster(cfg) ==
    [type |-> "aimd", config |-> cfg, blocks |-> <<>>,
     learningRate |-> cfg.InitialLearningRate,
     baseFee |-> cfg.InitialBaseFee]

AIMDGetMaxBlockSize(fa) ==
    CalculateMaxBlockSize(fa.config.TargetBlockSize, fa.config.BurstMultiplier)

\* adjustLearningRate that never decreases the rate near the target
adjustLearningRate_NoDecay(fa) ==
    LET targetUtilization ==
            CalculateTargetUtilization(fa.blocks, fa.config.WindowSize,
                                       fa.config.TargetBlockSize)
    IN  IF Abs(targetUtilization - FloatUnit) > fa.config.Gamma
        THEN Min2(fa.config.MaxLearningRate,
                  fa.config.Alpha + fa.learningRate)
        ELSE Max2(fa.config.MinLearningRate, fa.learningRate)

\* the learning rate after adjustLearningRate(), the block already appended
adjustLearningRate(fa) ==
    LET targetUtilization ==
            CalculateTargetUtilization(fa.blocks, fa.config.WindowSize,
                                       fa.config.TargetBlockSize)
        utilizationDeviation == Abs(targetUtilization - FloatUnit)
    IN  IF utilizationDeviation > fa.config.Gamma
        THEN Min2(fa.config.MaxLearningRate,
                  fa.config.Alpha + fa.learningRate)
        ELSE Max2(fa.config.MinLearningRate,
                  FMul(fa.config.Beta, fa.learningRate))

\* the base fee after adjustBaseFee(gasUsed), the learning rate already adjusted
adjustBaseFee(fa, gasUsed) ==
    LET targetBlockSize == fa.config.TargetBlockSize
        adjustment ==
            TruncDiv(fa.learningRate * (gasUsed - targetBlockSize),
                     targetBlockSize)
        deltaAdjustment ==
            fa.config.Delta * NetGasDelta(fa.blocks, fa.config.WindowSize,
                                          targetBlockSize)
        newBaseFee == ScaleBaseFee(fa.baseFee, adjustment, deltaAdjustment)
    IN  IF newBaseFee < fa.config.MinBaseFee
        THEN fa.config.MinBaseFee
        ELSE newBaseFee

AIMDProcessBlock(fa, gasUsed) ==
    LET appended ==
            [fa EXCEPT !.blocks =
                Append(fa.blocks,
                       Block(Len(fa.blocks) + 1, gasUsed, fa.baseFee))]
    IN  IF Len(appended.blocks) < fa.config.WindowSize
        THEN appended
        ELSE LET learned ==
                     [appended EXCEPT !.learningRate =
                                          adjustLearningRate(appended)]
             IN  [learned EXCEPT !.baseFee = adjustBaseFee(learned, gasUsed)]

AIMDGetCurrentState(fa) ==
    IF Len(fa.blocks) >= fa.config.WindowSize
    THEN State(fa.baseFee, fa.learningRate,
               CalculateTargetUtilization(fa.blocks, fa.config.WindowSize,
                                          fa.config.TargetBlockSize),
               CalculateBurstUtilization(fa.blocks, fa.config.WindowSize,
                                         AIMDGetMaxBlockSize(fa)))
    ELSE State(fa.baseFee, fa.learningRate, 0, 0)

AIMDReset(fa) ==
    [fa EXCEPT !.blocks = <<>>,
               !.learningRate = fa.config.InitialLearningRate,
               !.baseFee = fa.config.InitialBaseFee]

-----------------------------------------------------------------------------
(* PID adjuster *)

DefaultPIDConfig ==
    [TargetBlockSize |-> 15000000, BurstMultiplier |-> 2 * FloatUnit,
     InitialBaseFee |-> 1000000000, MinBaseFee |-> 0,
     Kp |-> 100, Ki |-> 10, Kd |-> 50,
     MaxIntegral |-> 1000 * FloatUnit, MinIntegral |-> -1000 * FloatUnit,
     MaxFeeChange |-> 250, WindowSize |-> 3]

NewPIDFeeAdjuster(cfg) ==
    [type |-> "pid", config |-> cfg, blocks |-> <<>>, baseFee |-> cfg.InitialBaseFee,
     integral |-> 0, lastError |-> 0, errorHistory |-> <<>>]

PIDGetMaxBlockSize(fa) ==
    CalculateMaxBlockSize(fa.config.TargetBlockSize, fa.config.BurstMultiplier)

\* variant: the history is never trimmed
PushError_Unbounded(errorHistory, error, windowSize) ==
    Append(errorHistory, error)

\* errorHistory after an append bounded by windowSize (oldest dropped)
PushError(errorHistory, error, windowSize) ==
    LET h == Append(errorHistory, error)
    IN  IF Len(h) > windowSize THEN Tail(h) ELSE h

PIDupdatePIDState(fa, delta) ==
    [fa EXCEPT
        !.integral = ClampFloat64(fa.integral + delta, fa.config.MinIntegral,
                                  fa.config.MaxIntegral),
        !.errorHistory = PushError(fa.errorHistory, delta,
                                   fa.config.WindowSize),
        !.lastError = delta]

PIDcalculateDerivative(fa) ==
    LET h == fa.errorHistory
        n == Len(h)
    IN  IF n < 2 THEN 0
        ELSE IF n < fa.config.WindowSize THEN h[n] - h[n - 1]
        ELSE LET sumX == SeqSum([i \in 1..n |-> i - 1])
                 sumY == SeqSum(h)
                 sumXY == SeqSum([i \in 1..n |-> (i - 1) * h[i]])
                 sumX2 == SeqSum([i \in 1..n |-> (i - 1) * (i - 1)])
                 denominator == n * sumX2 - sumX * sumX
             IN  IF denominator = 0 THEN 0
                 ELSE TruncDiv(n * sumXY - sumX * sumY, denominator)

\* the control output of adjustBaseFeePID(error), after the output limit
PIDControlOutput(fa, error) ==
    LET proportional == fa.config.Kp * error
        integral == fa.config.Ki * fa.integral
        derivative == fa.config.Kd * PIDcalculateDerivative(fa)
        controlOutput == TruncDiv(proportional + integral + derivative,
                                  FloatUnit)
        maxChange == fa.config.MaxFeeChange
    IN  ClampFloat64(controlOutput, -maxChange, maxChange)

adjustBaseFeePID(fa, error) ==
    LET newBaseFee == ScaleBaseFee(fa.baseFee, PIDControlOutput(fa, error), 0)
    IN  [fa EXCEPT !.baseFee = IF newBaseFee < fa.config.MinBaseFee
                               THEN fa.config.MinBaseFee
                               ELSE newBaseFee]

\* PIDProcessBlock that measures the error against a zero target utilization
PIDProcessBlock_ErrorFromZero(fa, gasUsed) ==
    LET appended ==
            [fa EXCEPT !.blocks =
                Append(fa.blocks,
                       Block(Len(fa.blocks) + 1, gasUsed, fa.baseFee))]
        delta == FDiv(gasUsed, fa.config.TargetBlockSize)
    IN  adjustBaseFeePID(PIDupdatePIDState(appended, delta), delta)

PIDProcessBlock(fa, gasUsed) ==
    LET appended ==
            [fa EXCEPT !.blocks =
                Append(fa.blocks,
                       Block(Len(fa.blocks) + 1, gasUsed, fa.baseFee))]
        targetUtilization == FloatUnit
        currentUtilization == FDiv(gasUsed, fa.config.TargetBlockSize)
        delta == currentUtilization - targetUtilization
    IN  adjustBaseFeePID(PIDupdatePIDState(appended, delta), delta)

\* float64 +Inf and NaN, outside the range of every finite value of the model
FloatInf == 2 ^ 30

FloatNaN == -(2 ^ 30)

PIDGetCurrentState(fa) ==
    LET n == Len(fa.blocks)
        windowSize == Min2(fa.config.WindowSize, n)
        targetUtilization ==
            IF n > 0
            THEN CalculateTargetUtilization(fa.blocks, windowSize,
                                            fa.config.TargetBlockSize)
            ELSE 0
        burstUtilization ==
            IF n > 0
            THEN CalculateBurstUtilization(fa.blocks, windowSize,
                                           PIDGetMaxBlockSize(fa))
            ELSE 0
        lastBlock == fa.blocks[n]
        prevBlock == fa.blocks[n - 1]
        baseFeeDiff == Abs(lastBlock.BaseFee - prevBlock.BaseFee)
        baseFeeChange ==
            IF prevBlock.BaseFee = 0
            THEN IF baseFeeDiff = 0 THEN FloatNaN ELSE FloatInf
            ELSE FDiv(baseFeeDiff, prevBlock.BaseFee)
        excessUtilization ==
            FDiv(lastBlock.GasUsed - fa.config.TargetBlockSize,
                 fa.config.TargetBlockSize)
        effectiveLearningRate ==
            IF n >= 2 /\ excessUtilization # 0
            THEN IF baseFeeChange \in {FloatNaN, FloatInf}
                 THEN baseFeeChange
                 ELSE Abs(TruncDiv(baseFeeChange * FloatUnit,
                                   excessUtilization))
            ELSE 0
    IN  State(fa.baseFee, effectiveLearningRate, targetUtilization,
              burstUtilization)

\* PIDReset that leaves the integral accumulator as it is
PIDReset_KeepIntegral(fa) ==
    [fa EXCEPT !.blocks = <<>>, !.baseFee = fa.config.InitialBaseFee,
               !.lastError = 0, !.errorHistory = <<>>]

PIDReset(fa) ==
    [fa EXCEPT !.blocks = <<>>, !.baseFee = fa.config.InitialBaseFee,
               !.integral = 0, !.lastError = 0, !.errorHistory = <<>>]

-----------------------------------------------------------------------------
(* Parameter updates and their channel (batcher_slow_pid.go) *)

SequencerParamUpdate(timestamp, newKp, newKi, newKd, newTargetUtil, newMaxFeeChange, throttlingActive, throttlingIntensity, reason) ==
    [Timestamp |-> timestamp, NewKp |-> newKp, NewKi |-> newKi,
     NewKd |-> newKd, NewTargetUtil |-> newTargetUtil,
     NewMaxFeeChange |-> newMaxFeeChange,
     ThrottlingActive |-> throttlingActive,
     ThrottlingIntensity |-> throttlingIntensity, Reason |-> reason]

\* make(chan SequencerParamUpdate, 10)
ChannelCapacity == 10

-----------------------------------------------------------------------------
(* Tactical layer: SequencerFastPID (sequencer_fast_pid.go) *)

DefaultSequencerFastPIDConfig ==
    [TargetBlockSize |-> 15000000, BurstMultiplier |-> 2 * FloatUnit,
     InitialBaseFee |-> 1000000000, MinBaseFee |-> 0,
     Kp |-> 800, Ki |-> 150, Kd |-> 250,
     MaxIntegral |-> 5 * FloatUnit, MinIntegral |-> -5 * FloatUnit,
     MaxFeeChange |-> 250, WindowSize |-> 3,
     ResponsivenessBoost |-> 1500, EmergencyThreshold |-> 1500,
     EmergencyMaxChange |-> 500, InitialTargetUtilization |-> FloatUnit,
     UtilizationTolerance |-> 50]

NewSequencerFastPID(cfg, t) ==
    [type |-> "sequencer-fast-pid", config |-> cfg, blocks |-> <<>>,
     baseFee |-> cfg.InitialBaseFee,
     integral |-> 0, lastError |-> 0, errorHistory |-> <<>>,
     currentKp |-> cfg.Kp, currentKi |-> cfg.Ki, currentKd |-> cfg.Kd,
     currentTargetUtil |-> cfg.InitialTargetUtilization,
     currentMaxFeeChange |-> cfg.MaxFeeChange,
     throttlingActive |-> FALSE, throttlingIntensity |-> 0,
     lastParameterUpdate |-> t,
     emergencyMode |-> FALSE, consecutiveHighUtil |-> 0,
     consecutiveLowUtil |-> 0, responsivenessBoost |-> FloatUnit,
     parameterUpdates |-> <<>>]

applyParameterUpdate(fp, update, t) ==
    [fp EXCEPT !.currentKp = update.NewKp,
               !.currentKi = update.NewKi,
               !.currentKd = update.NewKd,
               !.currentTargetUtil = update.NewTargetUtil,
               !.currentMaxFeeChange = update.NewMaxFeeChange,
               !.throttlingActive = update.ThrottlingActive,
               !.throttlingIntensity = update.ThrottlingIntensity,
               !.lastParameterUpdate = t]

\* variant: the channel is drained and the newest update applied
checkParameterUpdates_Newest(fp, t) ==
    IF fp.parameterUpdates # <<>>
    THEN [applyParameterUpdate(fp, fp.parameterUpdates[Len(fp.parameterUpdates)], t)
             EXCEPT !.parameterUpdates = <<>>]
    ELSE fp

\* select with a default: one pending update is received and applied, or none
checkParameterUpdates(fp, t) ==
    IF fp.parameterUpdates # <<>>
    THEN [applyParameterUpdate(fp, Head(fp.parameterUpdates), t)
             EXCEPT !.parameterUpdates = Tail(fp.parameterUpdates)]
    ELSE fp

updateEmergencyMode(fp, utilization) ==
    LET threshold == fp.config.EmergencyThreshold
    IN  IF utilization > threshold
        THEN [fp EXCEPT
                 !.consecutiveHighUtil = fp.consecutiveHighUtil + 1,
                 !.consecutiveLowUtil = 0,
                 !.emergencyMode =
                     IF fp.consecutiveHighUtil + 1 >= 2 /\ ~fp.emergencyMode
                     THEN TRUE ELSE fp.emergencyMode]
        ELSE IF utilization < 800
        THEN [fp EXCEPT
                 !.consecutiveLowUtil = fp.consecutiveLowUtil + 1,
                 !.consecutiveHighUtil = 0,
                 !.emergencyMode =
                     IF fp.consecutiveLowUtil + 1 >= 3 /\ fp.emergencyMode
                     THEN FALSE ELSE fp.emergencyMode]
        ELSE fp

updateResponsiveness(fp, utilization) ==
    [fp EXCEPT !.responsivenessBoost =
        IF utilization > 1200 THEN fp.config.ResponsivenessBoost
        ELSE IF utilization < 800 THEN 800
        ELSE FloatUnit]

FastupdatePIDState(fp, error) ==
    [fp EXCEPT
        !.integral = ClampFloat64(fp.integral + error, fp.config.MinIntegral,
                                  fp.config.MaxIntegral),
        !.errorHistory = PushError(fp.errorHistory, error,
                                   fp.config.WindowSize),
        !.lastError = error]

FastcalculateDerivative(fp) ==
    LET h == fp.errorHistory
    IN  IF Len(h) < 2 THEN 0 ELSE h[Len(h)] - h[Len(h) - 1]

\* variant: throttling widens the output limit instead of narrowing it
FastControlOutput_ThrottleWidensLimit(fp, error, throttling, throttlingIntensity) ==
    LET kp == FMul(fp.currentKp, fp.responsivenessBoost)
        ki == FMul(fp.currentKi, fp.responsivenessBoost)
        kd == FMul(fp.currentKd, fp.responsivenessBoost)
        controlOutput == TruncDiv(kp * error + ki * fp.integral
                                      + kd * FastcalculateDerivative(fp),
                                  FloatUnit)
        emergencyMax == IF fp.emergencyMode
                        THEN Max2(fp.currentMaxFeeChange,
                                  fp.config.EmergencyMaxChange)
                        ELSE fp.currentMaxFeeChange
        maxChange == IF throttling
                     THEN FMul(emergencyMax,
                               FloatUnit + FMul(throttlingIntensity, 500))
                     ELSE emergencyMax
        biased == IF throttling /\ controlOutput < 0
                  THEN FMul(controlOutput,
                            FloatUnit - FMul(throttlingIntensity, 300))
                  ELSE controlOutput
    IN  ClampFloat64(biased, -maxChange, maxChange)

\* the control output of adjustBaseFeeFastPID, after the output limit, with
\* the given throttling settings
FastControlOutput(fp, error, throttling, throttlingIntensity) ==
    LET kp == FMul(fp.currentKp, fp.responsivenessBoost)
        ki == FMul(fp.currentKi, fp.responsivenessBoost)
        kd == FMul(fp.currentKd, fp.responsivenessBoost)
        proportional == kp * error
        integral == ki * fp.integral
        derivative == kd * FastcalculateDerivative(fp)
        controlOutput == TruncDiv(proportional + integral + derivative,
                                  FloatUnit)
        emergencyMax == IF fp.emergencyMode
                        THEN Max2(fp.currentMaxFeeChange,
                                  fp.config.EmergencyMaxChange)
                        ELSE fp.currentMaxFeeChange
        maxChange == IF throttling
                     THEN FMul(emergencyMax,
                               FloatUnit - FMul(throttlingIntensity, 500))
                     ELSE emergencyMax
        biased == IF throttling /\ controlOutput < 0
                  THEN FMul(controlOutput,
                            FloatUnit - FMul(throttlingIntensity, 300))
                  ELSE controlOutput
    IN  ClampFloat64(biased, -maxChange, maxChange)

adjustBaseFeeFastPID(fp, error, utilization) ==
    Bind(FastControlOutput(fp, error, fp.throttlingActive,
                           fp.throttlingIntensity), LAMBDA controlOutput :
    Bind(ScaleBaseFee(fp.baseFee, controlOutput, 0), LAMBDA newBaseFee :
    [fp EXCEPT !.baseFee = IF newBaseFee < fp.config.MinBaseFee
                           THEN fp.config.MinBaseFee
                           ELSE newBaseFee]))

FastProcessBlock(fp, gasUsed, t) ==
    LET currentUtilization == FDiv(gasUsed, fp.config.TargetBlockSize)
    IN  Bind(checkParameterUpdates(fp, t), LAMBDA checked :
        Bind([checked EXCEPT !.blocks =
                 Append(checked.blocks,
                        Block(Len(checked.blocks) + 1, gasUsed,
                              checked.baseFee))], LAMBDA appended :
        Bind(appended.currentTargetUtil, LAMBDA targetUtil :
        Bind(currentUtilization - targetUtil, LAMBDA error :
        Bind(updateEmergencyMode(appended, currentUtilization), LAMBDA e :
        Bind(updateResponsiveness(e, currentUtilization), LAMBDA r :
        Bind(FastupdatePIDState(r, error), LAMBDA u :
        adjustBaseFeeFastPID(u, error, currentUtilization))))))))

calculateEffectiveLearningRate(fp) ==
    LET baseRate == TruncDiv(fp.currentKp + fp.currentKi + fp.currentKd, 3)
        emergency == IF fp.emergencyMode THEN FMul(baseRate, 1500)
                     ELSE baseRate
    IN  FMul(emergency, fp.responsivenessBoost)

FastGetCurrentState(fp) ==
    LET n == Len(fp.blocks)
        windowSize == Min2(fp.config.WindowSize, n)
    IN  State(fp.baseFee, calculateEffectiveLearningRate(fp),
              IF n > 0
              THEN CalculateTargetUtilization(fp.blocks, windowSize,
                                              fp.config.TargetBlockSize)
              ELSE 0,
              IF n > 0
              THEN CalculateBurstUtilization(fp.blocks, windowSize,
                       CalculateMaxBlockSize(fp.config.TargetBlockSize,
                                             fp.config.BurstMultiplier))
              ELSE 0)

FastReset(fp, t) ==
    [fp EXCEPT !.blocks = <<>>,
               !.baseFee = fp.config.InitialBaseFee,
               !.integral = 0, !.lastError = 0, !.errorHistory = <<>>,
               !.currentKp = fp.config.Kp,
               !.currentKi = fp.config.Ki,
               !.currentKd = fp.config.Kd,
               !.currentTargetUtil = fp.config.InitialTargetUtilization,
               !.currentMaxFeeChange = fp.config.MaxFeeChange,
               !.throttlingActive = FALSE,
               !.throttlingIntensity = 0,
               !.emergencyMode = FALSE,
               !.consecutiveHighUtil = 0,
               !.consecutiveLowUtil = 0,
               !.responsivenessBoost = FloatUnit,
               !.lastParameterUpdate = t]

\* a send that skips the update when the channel is full
FastSend_SkipWhenFull(parameterUpdates, update) ==
    IF Len(parameterUpdates) < ChannelCapacity
    THEN Append(parameterUpdates, update)
    ELSE parameterUpdates

\* the channel after SendParameterUpdate's non-blocking send: on a full
\* channel the oldest pending update is received and the new one sent; were
\* nothing to receive, the update would be dropped
FastSend(parameterUpdates, update) ==
    IF Len(parameterUpdates) < ChannelCapacity
    THEN Append(parameterUpdates, update)
    ELSE IF parameterUpdates # <<>>
    THEN Append(Tail(parameterUpdates), update)
    ELSE parameterUpdates

SendParameterUpdate(fp, update) ==
    [fp EXCEPT !.parameterUpdates = FastSend(fp.parameterUpdates, update)]

-----------------------------------------------------------------------------
(* Strategic layer: BatcherSlowPID (batcher_slow_pid.go)                   *)
(*                                                                         *)
(* A DA metric keeps the fields the controller reads (DAUsage, DACapacity) *)
(* and BatchEfficiency; its wei-denominated prices and its timestamp are   *)
(* only reported by GetDiagnostics and are left out.  UpdateFrequency is   *)
(* counted in clock ticks.                                                 *)

DefaultBatcherSlowPIDConfig ==
    [TargetBlockSize |-> 15000000, BurstMultiplier |-> 2 * FloatUnit,
     InitialBaseFee |-> 1000000000, MinBaseFee |-> 0,
     DAWindowSize |-> 10, UpdateFrequency |-> 30,
     Kp |-> 2000, Ki |-> 306, Kd |-> 300,
     TargetDAUtilization |-> 750, MaxDAUtilization |-> 900,
     SequencerKpRange |-> <<100, 2000>>,
     SequencerKiRange |-> <<10, 500>>,
     SequencerKdRange |-> <<5, 200>>,
     MaxParameterChange |-> 200,
     MaxIntegral |-> 10 * FloatUnit, MinIntegral |-> -10 * FloatUnit]

initialParams(t) ==
    SequencerParamUpdate(t, 800, 150, 50, FloatUnit, 250, FALSE, 0,
                         "Initial configuration")

NewBatcherSlowPID(cfg, t) ==
    [type |-> "batcher-slow-pid", config |-> cfg, blocks |-> <<>>,
     baseFee |-> cfg.InitialBaseFee,
     daMetrics |-> <<>>, l1Trends |-> <<>>, daCostHist |-> <<>>,
     integral |-> 0, lastError |-> 0, errorHistory |-> <<>>,
     lastUpdateTime |-> t,
     sequencerParams |-> initialParams(t),
     daUtilAvg |-> 0, costPerHour |-> 0, emergencyMode |-> FALSE,
     parameterUpdates |-> <<>>]

DACapacity == 131072

simulateDAMetrics(bp, block) ==
    LET daUsage == block.GasUsed \div 1000
    IN  [DAUsage |-> daUsage, DACapacity |-> DACapacity,
         BatchEfficiency |-> Min2(FDiv(daUsage, DACapacity), FloatUnit)]

\* variant: the strategic layer rounds the fee change down
updateBaseFeeEIP1559_Floor(bp, gasUsed) ==
    [bp EXCEPT !.baseFee =
        adjustBaseFeeEIP1559_Floor(bp.baseFee, gasUsed,
                                   bp.config.TargetBlockSize,
                                   bp.config.MinBaseFee)]

updateBaseFeeEIP1559(bp, gasUsed) ==
    [bp EXCEPT !.baseFee =
        adjustBaseFeeEIP1559(bp.baseFee, gasUsed, bp.config.TargetBlockSize,
                             bp.config.MinBaseFee)]

\* variant: the utilization of the newest metric instead of the average
calculateCurrentDAUtilization_NewestOnly(bp) ==
    IF bp.daMetrics = <<>> THEN 0
    ELSE FDiv(bp.daMetrics[Len(bp.daMetrics)].DAUsage,
              bp.daMetrics[Len(bp.daMetrics)].DACapacity)

calculateCurrentDAUtilization(bp) ==
    IF bp.daMetrics = <<>> THEN 0
    ELSE TruncDiv(SeqSum([i \in 1..Len(bp.daMetrics) |->
                            FDiv(bp.daMetrics[i].DAUsage,
                                 bp.daMetrics[i].DACapacity)]),
                  Len(bp.daMetrics))

SlowupdatePIDState(bp, error) ==
    [bp EXCEPT
        !.integral = ClampFloat64(bp.integral + error, bp.config.MinIntegral,
                                  bp.config.MaxIntegral),
        !.errorHistory = PushError(bp.errorHistory, error,
                                   bp.config.DAWindowSize),
        !.lastError = error]

SlowcalculateDerivative(bp) ==
    LET h == bp.errorHistory
    IN  IF Len(h) < 2 THEN 0 ELSE h[Len(h)] - h[Len(h) - 1]

calculateStrategicOutput(bp, error) ==
    TruncDiv(bp.config.Kp * error + bp.config.Ki * bp.integral
                 + bp.config.Kd * SlowcalculateDerivative(bp),
             FloatUnit)

\* variant: only increases are limited
clampParameterChange_IncreaseOnly(current, desired, maxChange) ==
    LET change == desired - current
        maxAbsChange == FMul(current, maxChange)
    IN  IF change > maxAbsChange THEN current + maxAbsChange
        ELSE desired

clampParameterChange(current, desired, maxChange) ==
    LET change == desired - current
        maxAbsChange == FMul(current, maxChange)
    IN  IF change > maxAbsChange THEN current + maxAbsChange
        ELSE IF change < -maxAbsChange THEN current - maxAbsChange
        ELSE desired

\* which of the three policy tiers a DA utilization falls in
PressureTier(bp, currentDAUtil) ==
    IF currentDAUtil > bp.config.MaxDAUtilization THEN "emergency"
    ELSE IF currentDAUtil > bp.config.TargetDAUtilization THEN "moderate"
    ELSE "low"

\* the parameters proposed by the policy tier, before the change limits
ProposedParameters(bp, currentDAUtil) ==
    LET tier == PressureTier(bp, currentDAUtil)
        pressureFactor ==
            TruncDiv((currentDAUtil - bp.config.TargetDAUtilization)
                         * FloatUnit,
                     bp.config.MaxDAUtilization
                         - bp.config.TargetDAUtilization)
    IN  CASE tier = "emergency" ->
               [newKp |-> 1500, newKi |-> 150, newKd |-> 50,
                newTargetUtil |-> 700, newMaxFeeChange |-> 250,
                throttlingActive |-> TRUE,
                throttlingIntensity |->
                    Min2(500, (currentDAUtil - bp.config.MaxDAUtilization)
                                  * 2),
                reason |-> "Emergency throttling"]
          [] tier = "moderate" ->
               [newKp |-> 800 + FMul(700, pressureFactor),
                newKi |-> 150 - FMul(50, pressureFactor), newKd |-> 50,
                newTargetUtil |-> FloatUnit,
                newMaxFeeChange |-> 250 + FMul(150, pressureFactor),
                throttlingActive |-> FALSE, throttlingIntensity |-> 0,
                reason |-> "DA pressure adjustment"]
          [] OTHER ->
               [newKp |-> 600, newKi |-> 200, newKd |-> 50,
                newTargetUtil |-> FloatUnit, newMaxFeeChange |-> 200,
                throttlingActive |-> FALSE, throttlingIntensity |-> 0,
                reason |-> "Low DA pressure: optimizing UX"]

\* variant: the change limits are applied, the absolute ranges are not
calculateSequencerParameters_NoRanges(bp, strategicOutput, currentDAUtil, t) ==
    LET p == ProposedParameters(bp, currentDAUtil)
        maxChange == bp.config.MaxParameterChange
    IN  SequencerParamUpdate(t,
            clampParameterChange(bp.sequencerParams.NewKp, p.newKp, maxChange),
            clampParameterChange(bp.sequencerParams.NewKi, p.newKi, maxChange),
            clampParameterChange(bp.sequencerParams.NewKd, p.newKd, maxChange),
            p.newTargetUtil, p.newMaxFeeChange, p.throttlingActive,
            p.throttlingIntensity, p.reason)

calculateSequencerParameters(bp, strategicOutput, currentDAUtil, t) ==
    LET p == ProposedParameters(bp, currentDAUtil)
        maxChange == bp.config.MaxParameterChange
        newKp == clampParameterChange(bp.sequencerParams.NewKp, p.newKp,
                                      maxChange)
        newKi == clampParameterChange(bp.sequencerParams.NewKi, p.newKi,
                                      maxChange)
        newKd == clampParameterChange(bp.sequencerParams.NewKd, p.newKd,
                                      maxChange)
    IN  SequencerParamUpdate(t,
            ClampFloat64(newKp, bp.config.SequencerKpRange[1],
                         bp.config.SequencerKpRange[2]),
            ClampFloat64(newKi, bp.config.SequencerKiRange[1],
                         bp.config.SequencerKiRange[2]),
            ClampFloat64(newKd, bp.config.SequencerKdRange[1],
                         bp.config.SequencerKdRange[2]),
            p.newTargetUtil, p.newMaxFeeChange, p.throttlingActive,
            p.throttlingIntensity, p.reason)

\* a send that makes room by dropping the oldest pending update
SlowSend_EvictOldest(parameterUpdates, params) ==
    IF Len(parameterUpdates) < ChannelCapacity
    THEN Append(parameterUpdates, params)
    ELSE Append(Tail(parameterUpdates), params)

\* the outbound channel after sendParameterUpdate's non-blocking send: on a
\* full channel the update is skipped
SlowSend(parameterUpdates, params) ==
    IF Len(parameterUpdates) < ChannelCapacity
    THEN Append(parameterUpdates, params)
    ELSE parameterUpdates

sendParameterUpdate(bp, params) ==
    [bp EXCEPT !.sequencerParams = params,
               !.parameterUpdates = SlowSend(bp.parameterUpdates, params)]

updateStrategicParameters(bp, t) ==
    IF bp.daMetrics = <<>> THEN bp
    ELSE Bind(calculateCurrentDAUtilization(bp), LAMBDA currentDAUtil :
         Bind(SlowupdatePIDState(bp, currentDAUtil
                                         - bp.config.TargetDAUtilization),
              LAMBDA updated :
         LET daUtilError == currentDAUtil - bp.config.TargetDAUtilization
             strategicOutput == calculateStrategicOutput(updated, daUtilError)
             tier == PressureTier(updated, currentDAUtil)
             newParams == calculateSequencerParameters(updated,
                              strategicOutput, currentDAUtil, t)
             decided == [updated EXCEPT !.emergencyMode =
                            IF tier = "emergency" THEN TRUE
                            ELSE IF tier = "low" THEN FALSE
                            ELSE updated.emergencyMode]
         IN  sendParameterUpdate(decided, newParams)))

\* the strategic layer when updateBaseFeeEIP1559 panics: the block and its
\* metrics are already appended
SlowProcessBlockUntilPanic(bp, gasUsed) ==
    LET block == Block(Len(bp.blocks) + 1, gasUsed, bp.baseFee)
        metrics == Append(bp.daMetrics, simulateDAMetrics(bp, block))
    IN  [bp EXCEPT !.blocks = Append(bp.blocks, block),
                   !.daMetrics =
                       IF Len(metrics) > bp.config.DAWindowSize
                       THEN Tail(metrics) ELSE metrics]

SlowProcessBlock(bp, gasUsed, t) ==
    LET block == Block(Len(bp.blocks) + 1, gasUsed, bp.baseFee)
        metrics == Append(bp.daMetrics, simulateDAMetrics(bp, block))
        appended ==
            [bp EXCEPT !.blocks = Append(bp.blocks, block),
                       !.daMetrics =
                           IF Len(metrics) > bp.config.DAWindowSize
                           THEN Tail(metrics) ELSE metrics]
    IN  Bind(updateBaseFeeEIP1559(appended, gasUsed), LAMBDA priced :
            IF t - bp.lastUpdateTime >= bp.config.UpdateFrequency
            THEN [updateStrategicParameters(priced, t)
                     EXCEPT !.lastUpdateTime = t]
            ELSE priced)

SlowGetCurrentState(bp) ==
    LET full == Len(bp.blocks) > 0
                    /\ Len(bp.blocks) >= bp.config.DAWindowSize
    IN  State(bp.baseFee, bp.daUtilAvg,
              IF full
              THEN CalculateTargetUtilization(bp.blocks,
                       bp.config.DAWindowSize, bp.config.TargetBlockSize)
              ELSE 0,
              IF full
              THEN CalculateBurstUtilization(bp.blocks,
                       bp.config.DAWindowSize,
                       CalculateMaxBlockSize(bp.config.TargetBlockSize,
                                             bp.config.BurstMultiplier))
              ELSE 0)

SlowReset(bp, t) ==
    [bp EXCEPT !.blocks = <<>>,
               !.baseFee = bp.config.InitialBaseFee,
               !.daMetrics = <<>>, !.l1Trends = <<>>, !.daCostHist = <<>>,
               !.integral = 0, !.lastError = 0, !.errorHistory = <<>>,
               !.lastUpdateTime = t,
               !.daUtilAvg = 0, !.costPerHour = 0,
               !.emergencyMode = FALSE]

-----------------------------------------------------------------------------
(* Hierarchical controller: HierarchicalPID (hierarchical_pid.go), the     *)
(* strategic layer and the tactical layer behind one FeeAdjuster.          *)
(* UpdateInterval is counted in clock ticks.                               *)

DefaultHierarchicalPIDConfig ==
    [TargetBlockSize |-> 15000000, BurstMultiplier |-> 2 * FloatUnit,
     InitialBaseFee |-> 1000000000, MinBaseFee |-> 0,
     SlowLayerConfig |-> DefaultBatcherSlowPIDConfig,
     FastLayerConfig |-> DefaultSequencerFastPIDConfig,
     EnableCoordination |-> TRUE, UpdateInterval |-> 30]

\* a layer's configuration with the four base fields of the controller's
LayerConfig(layerConfig, cfg) ==
    [layerConfig EXCEPT !.TargetBlockSize = cfg.TargetBlockSize,
                        !.BurstMultiplier = cfg.BurstMultiplier,
                        !.InitialBaseFee = cfg.InitialBaseFee,
                        !.MinBaseFee = cfg.MinBaseFee]

NewHierarchicalPID(cfg, t) ==
    [type |-> "hierarchical-pid", config |-> cfg,
     slowLayer |-> NewBatcherSlowPID(LayerConfig(cfg.SlowLayerConfig, cfg), t),
     fastLayer |-> NewSequencerFastPID(LayerConfig(cfg.FastLayerConfig, cfg), t),
     lastUpdateTime |-> t, simulationMode |-> TRUE]

\* coordinateLayers that empties the channel and forwards its newest update
coordinateLayers_DrainAll(hp) ==
    [hp EXCEPT
        !.slowLayer.parameterUpdates = <<>>,
        !.fastLayer.parameterUpdates =
            IF hp.slowLayer.parameterUpdates = <<>>
            THEN hp.fastLayer.parameterUpdates
            ELSE FastSend(hp.fastLayer.parameterUpdates,
                          hp.slowLayer.parameterUpdates[
                              Len(hp.slowLayer.parameterUpdates)])]

\* one non-blocking receive from the strategic layer's channel; what is
\* received is sent to the tactical layer
coordinateLayers(hp) ==
    IF hp.slowLayer.parameterUpdates # <<>>
    THEN [hp EXCEPT
             !.slowLayer.parameterUpdates = Tail(hp.slowLayer.parameterUpdates),
             !.fastLayer =
                 SendParameterUpdate(hp.fastLayer,
                                     Head(hp.slowLayer.parameterUpdates))]
    ELSE hp

\* the controller after the strategic layer's ProcessBlock and the
\* coordination step of ProcessBlock
HierCoordinated(hp, gasUsed, t) ==
    Bind(SlowProcessBlock(hp.slowLayer, gasUsed, t),
         LAMBDA slowLayer :
            LET slow == [hp EXCEPT !.slowLayer = slowLayer]
            IN  IF hp.config.EnableCoordination
                   /\ t - hp.lastUpdateTime >= hp.config.UpdateInterval
                THEN [coordinateLayers(slow) EXCEPT !.lastUpdateTime = t]
                ELSE slow)

HierProcessBlock(hp, gasUsed, t) ==
    Bind(HierCoordinated(hp, gasUsed, t),
         LAMBDA coordinated :
            [coordinated EXCEPT !.fastLayer =
                FastProcessBlock(coordinated.fastLayer, gasUsed, t)])

\* HierGetCurrentState that reports the strategic layer
HierGetCurrentState_FromSlow(hp) == SlowGetCurrentState(hp.slowLayer)

HierGetCurrentState(hp) == FastGetCurrentState(hp.fastLayer)

HierGetBlocks(hp) == hp.fastLayer.blocks

HierGetMaxBlockSize(hp) ==
    CalculateMaxBlockSize(hp.fastLayer.config.TargetBlockSize,
                          hp.fastLayer.config.BurstMultiplier)

HierReset(hp, t) ==
    [hp EXCEPT !.slowLayer = SlowReset(hp.slowLayer, t),
               !.fastLayer = FastReset(hp.fastLayer, t),
               !.lastUpdateTime = t]

\* the updates the ProcessBlock call passes to the tactical layer's
\* SendParameterUpdate, in order
Forwarded(fa, gasUsed, t) ==
    IF fa.type = "hierarchical-pid"
    THEN Bind(SlowProcessBlock(fa.slowLayer, gasUsed, t).parameterUpdates,
              LAMBDA pending :
                 IF fa.config.EnableCoordination
                    /\ t - fa.lastUpdateTime >= fa.config.UpdateInterval
                    /\ pending # <<>>
                 THEN <<Head(pending)>>
                 ELSE <<>>)
    ELSE <<>>

-----------------------------------------------------------------------------
(* The FeeAdjuster interface and the factory; t is the clock reading of    *)
(* the call (time.Now())                                                   *)

CreateAdjuster(adjusterType, cfg, t) ==
    CASE adjusterType = "eip1559" -> NewEIP1559FeeAdjuster(cfg)
      [] adjusterType = "aimd" -> NewAIMDFeeAdjuster(cfg)
      [] adjusterType = "pid" -> NewPIDFeeAdjuster(cfg)
      [] adjusterType = "batcher-slow-pid" -> NewBatcherSlowPID(cfg, t)
      [] adjusterType = "sequencer-fast-pid" -> NewSequencerFastPID(cfg, t)
      [] adjusterType = "hierarchical-pid" -> NewHierarchicalPID(cfg, t)

ProcessBlock(fa, gasUsed, t) ==
    CASE fa.type = "eip1559" -> EIP1559ProcessBlock(fa, gasUsed)
      [] fa.type = "aimd" -> AIMDProcessBlock(fa, gasUsed)
      [] fa.type = "pid" -> PIDProcessBlock(fa, gasUsed)
      [] fa.type = "batcher-slow-pid" -> SlowProcessBlock(fa, gasUsed, t)
      [] fa.type = "sequencer-fast-pid" -> FastProcessBlock(fa, gasUsed, t)
      [] fa.type = "hierarchical-pid" -> HierProcessBlock(fa, gasUsed, t)

\* the ProcessBlock call panics instead of returning
ProcessBlockPanics(fa, gasUsed) ==
    /\ fa.type \in {"eip1559", "batcher-slow-pid", "hierarchical-pid"}
    /\ adjustBaseFeeEIP1559Panics(gasUsed, fa.config.TargetBlockSize)

ProcessBlockUntilPanic(fa, gasUsed) ==
    CASE fa.type = "eip1559" -> EIP1559ProcessBlockUntilPanic(fa, gasUsed)
      [] fa.type = "batcher-slow-pid" -> SlowProcessBlockUntilPanic(fa, gasUsed)
      [] fa.type = "hierarchical-pid" ->
            [fa EXCEPT !.slowLayer =
                SlowProcessBlockUntilPanic(fa.slowLayer, gasUsed)]

GetCurrentState(fa) ==
    CASE fa.type = "eip1559" -> EIP1559GetCurrentState(fa)
      [] fa.type = "aimd" -> AIMDGetCurrentState(fa)
      [] fa.type = "pid" -> PIDGetCurrentState(fa)
      [] fa.type = "batcher-slow-pid" -> SlowGetCurrentState(fa)
      [] fa.type = "sequencer-fast-pid" -> FastGetCurrentState(fa)
      [] fa.type = "hierarchical-pid" -> HierGetCurrentState(fa)

GetMaxBlockSize(fa) ==
    IF fa.type = "hierarchical-pid" THEN HierGetMaxBlockSize(fa)
    ELSE CalculateMaxBlockSize(fa.config.TargetBlockSize,
                               fa.config.BurstMultiplier)

GetBlocks(fa) ==
    IF fa.type = "hierarchical-pid" THEN HierGetBlocks(fa) ELSE fa.blocks

\* GetBlocks that returns the adjuster's own slice
GetBlocksShared_NoCopy(fa) == TRUE

\* whether the slice GetBlocks returns shares its elements with the
\* adjuster's log: every GetBlocks makes a new slice and copies into it
GetBlocksShared(fa) == FALSE

\* a getter that moves the minimum base fee
AfterRead_Touch(fa) == [fa EXCEPT !.config.MinBaseFee = @ + 1]

\* the adjuster after GetCurrentState, GetMaxBlockSize or GetBlocks returned:
\* none of them assigns a field, sends or receives
AfterRead(fa) == fa

\* the adjuster after the caller wrote block k of a slice that shares its
\* elements with the log
WithBlock(fa, k, block) ==
    IF fa.type = "hierarchical-pid"
    THEN [fa EXCEPT !.fastLayer.blocks[k] = block]
    ELSE [fa EXCEPT !.blocks[k] = block]

Reset(fa, t) ==
    CASE fa.type = "eip1559" -> EIP1559Reset(fa)
      [] fa.type = "aimd" -> AIMDReset(fa)
      [] fa.type = "pid" -> PIDReset(fa)
      [] fa.type = "batcher-slow-pid" -> SlowReset(fa, t)
      [] fa.type = "sequencer-fast-pid" -> FastReset(fa, t)
      [] fa.type = "hierarchical-pid" -> HierReset(fa, t)

-----------------------------------------------------------------------------
(* Configurations and inputs of the model *)

SmallBase(initialBaseFee, minBaseFee) ==
    [TargetBlockSize |-> 10, BurstMultiplier |-> 2 * FloatUnit,
     InitialBaseFee |-> initialBaseFee, MinBaseFee |-> minBaseFee]

\* <<InitialBaseFee, MinBaseFee>> of the small configurations: a minimum out
\* of reach, one the fee falls to, and one above the initial fee
BaseFees == {<<1000, 0>>, <<1000, 900>>, <<100, 150>>}

EIP1559Configs ==
    {DefaultEIP1559Config} \cup
    {SmallBase(f[1], f[2]) @@ [MaxFeeChange |-> 125] : f \in BaseFees}

AIMDConfigs ==
    {SmallBase(f[1], f[2]) @@
        [WindowSize |-> w[1], Gamma |-> 250, InitialLearningRate |-> lr,
         MaxLearningRate |-> 500, MinLearningRate |-> 95, Alpha |-> 200,
         Beta |-> 900, Delta |-> w[2]] :
        f \in BaseFees, w \in {<<2, 0>>, <<3, 100>>}, lr \in {100, 600}}

PIDConfigs ==
    {DefaultPIDConfig} \cup
    {SmallBase(f[1], f[2]) @@
        [Kp |-> 100, Ki |-> 10, Kd |-> 50,
         MaxIntegral |-> 1500, MinIntegral |-> -1500,
         MaxFeeChange |-> 250, WindowSize |-> w] :
        f \in BaseFees, w \in {2, 3}}

\* the default tactical configuration on a small block size, as the factory
\* builds it: only the four shared fields are the caller's; the fee reaches
\* the minimum with the third block below the target
SequencerFastPIDConfigs ==
    {[f \in DOMAIN DefaultSequencerFastPIDConfig |->
         IF f \in DOMAIN SmallBase(1000, m) THEN SmallBase(1000, m)[f]
         ELSE DefaultSequencerFastPIDConfig[f]] : m \in {500}}

\* strategic configurations: a block size whose data usage reaches every
\* pressure tier (100,000 of the 131,072 bytes at the target), a window of
\* two metrics, and an update on every block or after a clock tick
BatcherSlowPIDConfigs ==
    {[f \in DOMAIN DefaultBatcherSlowPIDConfig |->
         CASE f = "TargetBlockSize" -> 100000000
           [] f = "InitialBaseFee" -> 1000
           [] f = "DAWindowSize" -> 2
           [] f = "UpdateFrequency" -> u
           [] OTHER -> DefaultBatcherSlowPIDConfig[f]] : u \in {0, 1}}

\* hierarchical configurations: the strategic layer proposes an update on
\* every block; coordination once per clock tick, or disabled
HierarchicalPIDConfigs ==
    {[DefaultHierarchicalPIDConfig EXCEPT
         !.TargetBlockSize = 100000000,
         !.InitialBaseFee = 1000,
         !.MinBaseFee = 500,
         !.SlowLayerConfig =
             [DefaultBatcherSlowPIDConfig EXCEPT !.DAWindowSize = 2,
                                                 !.UpdateFrequency = 0],
         !.EnableCoordination = c[1],
         !.UpdateInterval = c[2]] :
        c \in {<<TRUE, 1>>, <<FALSE, 0>>}}

\* gas used by a block: empty, the target, the maximum block size of a burst
\* multiplier of 2, and above it
GasInputs(targetBlockSize) ==
    {0, targetBlockSize, 2 * targetBlockSize, 3 * targetBlockSize}

\* gas used by a block given to a layer: below every threshold, at the
\* target, and above every threshold
LayerGasInputs(targetBlockSize) == {0, targetBlockSize, 2 * targetBlockSize}

\* gas used by the blocks of a long run: the target and the maximum
SteadyGasInputs(fa) ==
    IF fa.type = "batcher-slow-pid"
    THEN {fa.config.TargetBlockSize, 2 * fa.config.TargetBlockSize}
    ELSE {fa.config.TargetBlockSize}

\* parameter updates a caller sends to the tactical layer; n numbers the
\* sends and is the update's timestamp
ThrottleUpdate(n) ==
    SequencerParamUpdate(n, 1500, 150, 50, 700, 250, TRUE, 500,
                         "Emergency throttling")

RelaxUpdate(n) ==
    SequencerParamUpdate(n, 600, 200, 50, FloatUnit, 200, FALSE, 0,
                         "Low DA pressure: optimizing UX")

SteadyUpdate(n) ==
    SequencerParamUpdate(n, 800 + n, 150, 50, FloatUnit, 250, FALSE, 0,
                         "Strategic adjustment")

-----------------------------------------------------------------------------
(* The block fetcher (package blockchain).  remainingBlocks is the key set *)
(* of the Go map, results and roundResults are maps from block numbers to  *)
(* the block of a BlockFetchResult (fetchRound keeps no result without a   *)
(* block); jobs are the jobs of the round no worker has taken yet and      *)
(* calls the FetchBlockData calls made so far.                             *)

\* the block the chain holds under a number
BlockData(number) ==
    [Number |-> number, GasLimit |-> 30000000,
     BaseFeePerGas |-> 1000000000 + number]

NoBlock == [Number |-> 0, GasLimit |-> 0, BaseFeePerGas |-> 0]

NoDataSet ==
    [StartBlock |-> 0, EndBlock |-> 0, InitialBaseFee |-> 0,
     InitialGasLimit |-> 0, Blocks |-> <<>>]

EmptyMap == [k \in {} |-> NoBlock]

MapPut(m, key, value) ==
    [k \in DOMAIN m \cup {key} |-> IF k = key THEN value ELSE m[k]]

FetchOptions(startBlock, endBlock, maxRetries) ==
    [StartBlock |-> startBlock, EndBlock |-> endBlock,
     MaxRetries |-> maxRetries]

NewBlockFetcher(options) ==
    [options |-> options, pc |-> "new", round |-> 0,
     remainingBlocks |-> {}, results |-> EmptyMap, firstBlock |-> NoBlock,
     jobs |-> {}, roundResults |-> EmptyMap, calls |-> {},
     dataset |-> NoDataSet, err |-> "nil"]

\* no fetcher was created
NoFetcher == [NewBlockFetcher(FetchOptions(0, 0, 0)) EXCEPT !.pc = "none"]

\* FetchRange returns
Return(f, dataset, err) ==
    [f EXCEPT !.pc = "returned", !.dataset = dataset, !.err = err]

\* the blocks of results in StartBlock..EndBlock, in ascending order
RECURSIVE OrderedBlocks(_, _, _)
OrderedBlocks(results, blockNum, endBlock) ==
    IF blockNum > endBlock THEN <<>>
    ELSE (IF blockNum \in DOMAIN results
          THEN <<results[blockNum]>> ELSE <<>>)
         \o OrderedBlocks(results, blockNum + 1, endBlock)

createDataSet(f, results, firstBlock) ==
    LET blocks == OrderedBlocks(results, f.options.StartBlock,
                                f.options.EndBlock)
        missingBlocks == {n \in f.options.StartBlock..f.options.EndBlock :
                             n \notin DOMAIN results}
    IN  IF missingBlocks # {}
        THEN Return(f, NoDataSet, "incomplete dataset")
        ELSE IF blocks = <<>>
        THEN Return(f, NoDataSet, "no blocks were successfully fetched")
        ELSE Return(f, [StartBlock |-> f.options.StartBlock,
                        EndBlock |-> f.options.EndBlock,
                        InitialBaseFee |-> firstBlock.BaseFeePerGas,
                        InitialGasLimit |-> firstBlock.GasLimit,
                        Blocks |-> blocks], "nil")

\* FetchRange after its loop of rounds
AfterRounds(f) ==
    IF f.firstBlock = NoBlock
    THEN Return(f, NoDataSet, "failed to fetch first block")
    ELSE createDataSet(f, f.results, f.firstBlock)

\* a round begins: one job per remaining block
StartRound(f, round) ==
    [f EXCEPT !.pc = "round", !.round = round, !.jobs = f.remainingBlocks,
              !.roundResults = EmptyMap]

\* variant: a fetched block stays among the remaining blocks
RemainingAfterRound_KeepFetched(remainingBlocks, roundResults) ==
    remainingBlocks

\* the remaining blocks after the results of a round were processed
RemainingAfterRound(remainingBlocks, roundResults) ==
    remainingBlocks \ DOMAIN roundResults

\* the results of a round are processed, and the loop goes on or ends
ProcessRoundResults(f) ==
    LET remaining == RemainingAfterRound(f.remainingBlocks, f.roundResults)
        stored ==
            [f EXCEPT
                !.results = [k \in DOMAIN f.results \cup DOMAIN f.roundResults |->
                                IF k \in DOMAIN f.roundResults
                                THEN f.roundResults[k] ELSE f.results[k]],
                !.remainingBlocks = remaining,
                !.firstBlock =
                    IF f.options.StartBlock \in DOMAIN f.roundResults
                    THEN f.roundResults[f.options.StartBlock]
                    ELSE f.firstBlock]
    IN  IF remaining = {} THEN AfterRounds(stored)
        ELSE IF f.round < f.options.MaxRetries
        THEN StartRound(stored, f.round + 1)
        ELSE Return(stored, NoDataSet,
                    "unable to fetch complete dataset")

-----------------------------------------------------------------------------
(* Operations.  fed holds the gasUsed inputs processed since construction  *)
(* or the last Reset, sent the updates passed to SendParameterUpdate,      *)
(* sentAtReset their number at the last Reset, lastOp the last operation   *)
(* and before what the adjuster held when that operation was called.       *)

\* the largest base fee the adjuster holds
BaseFeeOf(fa) ==
    IF fa.type = "hierarchical-pid"
    THEN Max2(fa.slowLayer.baseFee, fa.fastLayer.baseFee)
    ELSE fa.baseFee

\* the caller holds no slice
NoSlice == [blocks |-> <<>>, shared |-> FALSE, written |-> FALSE]

Snapshot(fa) ==
    IF fa.type = "hierarchical-pid"
    THEN [emergencyMode |-> fa.fastLayer.emergencyMode,
          parameterUpdates |-> fa.slowLayer.parameterUpdates,
          due |-> fa.config.EnableCoordination
                      /\ now - fa.lastUpdateTime >= fa.config.UpdateInterval,
          at |-> now, forwarded |-> Len(sent), controller |-> fa]
    ELSE IF fa.type \in {"batcher-slow-pid", "sequencer-fast-pid"}
    THEN [emergencyMode |-> fa.emergencyMode,
          parameterUpdates |-> fa.parameterUpdates,
          due |-> IF fa.type = "batcher-slow-pid"
                  THEN now - fa.lastUpdateTime >= fa.config.UpdateFrequency
                  ELSE FALSE]
    ELSE [emergencyMode |-> FALSE, parameterUpdates |-> <<>>, due |-> FALSE]

\* the engine after construction
InitSimulator(adjusters) ==
    /\ adjuster \in adjusters
    /\ now = 0
    /\ fed = <<>>
    /\ processed = 0
    /\ sent = <<>>
    /\ sentAtReset = 0
    /\ lastOp = "New"
    /\ resets = 0
    /\ before = Snapshot(adjuster)
    /\ panicked = FALSE
    /\ caller = NoSlice

\* the goroutines that may call one tactical layer at the same time
Goroutines == {1, 2}

\* the methods with a Reset that writes the parameters without fp.mu
Program_ResetUnlocked(method) ==
    CASE method = "ProcessBlock" ->
             <<"receive", "Lock", "applyParameterUpdate", "Unlock",
               "RLock", "readTargetUtil", "RUnlock",
               "RLock", "readGains", "RUnlock">>
      [] method = "Reset" -> <<"resetParameters">>
      [] method = "GetCurrentState" -> <<"RLock", "readGains", "RUnlock">>
      [] method = "GetDiagnostics" -> <<"RLock", "readAll", "RUnlock">>
      [] method = "SendParameterUpdate" -> <<"send">>

\* a method of the tactical layer as the sequence of its steps that take or
\* release fp.mu, access the current parameters, or use the update channel;
\* ProcessBlock receives at most one update (select with default) and skips
\* applyParameterUpdate when there is none
Program(method) ==
    CASE method = "ProcessBlock" ->
             <<"receive", "Lock", "applyParameterUpdate", "Unlock",
               "RLock", "readTargetUtil", "RUnlock",
               "RLock", "readGains", "RUnlock">>
      [] method = "Reset" -> <<"Lock", "resetParameters", "Unlock">>
      [] method = "GetCurrentState" -> <<"RLock", "readGains", "RUnlock">>
      [] method = "GetDiagnostics" -> <<"RLock", "readAll", "RUnlock">>
      [] method = "SendParameterUpdate" -> <<"send">>

Methods ==
    {"ProcessBlock", "Reset", "GetCurrentState", "GetDiagnostics",
     "SendParameterUpdate"}

Idle == [method |-> "idle", index |-> 0]

\* no goroutine is in a call: fp.mu is free, the current parameters are the
\* configuration's (parameter set 0; the n-th update sent is set n)
NoGoroutines ==
    [mu       |-> [writer |-> 0, readers |-> {}],
     pc       |-> [g \in Goroutines |-> Idle],
     current  |-> 0,
     parameterUpdates |-> <<>>,
     update   |-> [g \in Goroutines |-> 0],
     targetUtil |-> [g \in Goroutines |-> -1],
     gains    |-> [g \in Goroutines |-> -1],
     calls    |-> 0,
     updates  |-> 0]

\* a run of the engine: no block is fetched
InitWith(adjusters) ==
    /\ InitSimulator(adjusters)
    /\ fetcher = NoFetcher
    /\ goroutines = NoGoroutines

DoProcessBlock(inputs, budget) ==
    /\ ~panicked
    /\ processed < budget
    /\ BaseFeeOf(adjuster) <= MaxBaseFee
    /\ \E gasUsed \in inputs :
          /\ IF ProcessBlockPanics(adjuster, gasUsed)
             THEN /\ adjuster' = ProcessBlockUntilPanic(adjuster, gasUsed)
                  /\ sent' = sent
                  /\ panicked' = TRUE
             ELSE /\ adjuster' = ProcessBlock(adjuster, gasUsed, now)
                  /\ sent' = sent \o Forwarded(adjuster, gasUsed, now)
                  /\ panicked' = FALSE
          /\ fed' = Append(fed, gasUsed)
    /\ processed' = processed + 1
    /\ lastOp' = "ProcessBlock"
    /\ before' = Snapshot(adjuster)
    /\ UNCHANGED <<now, sentAtReset, resets, caller, fetcher, goroutines>>

DoSendParameterUpdate(updates, budget) ==
    /\ ~panicked
    /\ adjuster.type = "sequencer-fast-pid"
    /\ Len(sent) < budget
    /\ \E update \in updates :
          /\ adjuster' = SendParameterUpdate(adjuster, update)
          /\ sent' = Append(sent, update)
    /\ lastOp' = "SendParameterUpdate"
    /\ before' = Snapshot(adjuster)
    /\ UNCHANGED <<now, fed, processed, sentAtReset, resets, panicked, caller,
                   fetcher, goroutines>>

CallProcessBlock ==
    DoProcessBlock(GasInputs(adjuster.config.TargetBlockSize), MaxBlocks)

CallProcessBlockLayer ==
    DoProcessBlock(LayerGasInputs(adjuster.config.TargetBlockSize), MaxBlocks)

CallReset ==
    /\ ~panicked
    /\ resets < MaxResets
    /\ adjuster' = Reset(adjuster, now)
    /\ fed' = <<>>
    /\ sentAtReset' = Len(sent)
    /\ lastOp' = "Reset"
    /\ resets' = resets + 1
    /\ before' = Snapshot(adjuster)
    /\ UNCHANGED <<now, processed, sent, panicked, caller, fetcher, goroutines>>

CallSendParameterUpdate ==
    DoSendParameterUpdate({ThrottleUpdate(Len(sent) + 1),
                           RelaxUpdate(Len(sent) + 1)}, MaxSends)

\* a getter call; the result is the caller's
DoRead(op) ==
    /\ ~panicked
    /\ adjuster' = AfterRead(adjuster)
    /\ lastOp' = op
    /\ before' = Snapshot(adjuster)
    /\ caller' = IF op = "GetBlocks"
                 THEN [blocks |-> GetBlocks(adjuster),
                       shared |-> GetBlocksShared(adjuster),
                       written |-> FALSE]
                 ELSE caller
    /\ UNCHANGED <<now, fed, processed, sent, sentAtReset, resets, panicked,
                   fetcher, goroutines>>

CallGetCurrentState == DoRead("GetCurrentState")

CallGetMaxBlockSize == DoRead("GetMaxBlockSize")

CallGetBlocks == DoRead("GetBlocks")

\* the caller overwrites the first block of the slice it holds
CallerWritesBlock ==
    /\ ~panicked
    /\ caller.blocks # <<>>
    /\ ~caller.written
    /\ LET block == Block(0, 0, 0)
       IN  /\ caller' = [caller EXCEPT !.blocks[1] = block, !.written = TRUE]
           /\ adjuster' = IF caller.shared /\ GetBlocks(adjuster) # <<>>
                          THEN WithBlock(adjuster, 1, block)
                          ELSE adjuster
    /\ lastOp' = "write"
    /\ before' = Snapshot(adjuster)
    /\ UNCHANGED <<now, fed, processed, sent, sentAtReset, resets, panicked,
                   fetcher, goroutines>>

\* the clock advances between calls
Tick ==
    /\ ~panicked
    /\ now < MaxTime
    /\ now' = now + 1
    /\ UNCHANGED <<adjuster, fed, processed, sent, sentAtReset, lastOp, resets,
                   before, panicked, caller, fetcher, goroutines>>

CallProcessBlockSteady ==
    DoProcessBlock(SteadyGasInputs(adjuster), MaxSteadyBlocks)

CallSendParameterUpdateBurst ==
    DoSendParameterUpdate({SteadyUpdate(Len(sent) + 1)}, MaxBurstSends)

-----------------------------------------------------------------------------
(* The standalone adjusters: EIP-1559, AIMD, PID *)

InitBasic ==
    InitWith({CreateAdjuster("eip1559", c, 0) : c \in EIP1559Configs} \cup
             {CreateAdjuster("aimd", c, 0) : c \in AIMDConfigs} \cup
             {CreateAdjuster("pid", c, 0) : c \in PIDConfigs})

NextBasic == CallProcessBlock \/ CallReset

SpecBasic == InitBasic /\ [][NextBasic]_vars

-----------------------------------------------------------------------------
(* The AIMD adjuster of the default configuration on runs longer than its  *)
(* window of 10 blocks: empty blocks and blocks at the target              *)

DefaultGasInputs(targetBlockSize) == {0, targetBlockSize}

CallProcessBlockDefault ==
    DoProcessBlock(DefaultGasInputs(adjuster.config.TargetBlockSize),
                   MaxSteadyBlocks)

InitDefaultAIMD == InitWith({CreateAdjuster("aimd", DefaultAIMDConfig, 0)})

NextDefaultAIMD == CallProcessBlockDefault

SpecDefaultAIMD == InitDefaultAIMD /\ [][NextDefaultAIMD]_vars

-----------------------------------------------------------------------------
(* Numeric edge cases: configurations with a zero TargetBlockSize, which   *)
(* Validate accepts, next to the same configurations with a target of 10   *)

ZeroTarget(cfg) == [cfg EXCEPT !.TargetBlockSize = 0]

EdgeGasInputs == {0, 10, 20}

CallProcessBlockEdge == DoProcessBlock(EdgeGasInputs, MaxBlocks)

InitEdge ==
    InitWith({CreateAdjuster("eip1559", c, 0) :
                 c \in (EIP1559Configs \ {DefaultEIP1559Config}) \cup
                       {ZeroTarget(e) :
                           e \in EIP1559Configs \ {DefaultEIP1559Config}}} \cup
             {CreateAdjuster("batcher-slow-pid", ZeroTarget(c), 0) :
                 c \in {b \in BatcherSlowPIDConfigs :
                            b.UpdateFrequency = 0}})

NextEdge == CallProcessBlockEdge \/ CallReset

SpecEdge == InitEdge /\ [][NextEdge]_vars

-----------------------------------------------------------------------------
(* The tactical layer on its own: blocks of every utilization band, a few  *)
(* updates sent by a caller, a Reset.  The layer reads the clock only to   *)
(* stamp lastParameterUpdate, so the clock stands still.                   *)

InitTactical ==
    InitWith({CreateAdjuster("sequencer-fast-pid", c, 0) :
                 c \in SequencerFastPIDConfigs})

NextTactical ==
    CallProcessBlockLayer \/ CallReset \/ CallSendParameterUpdate

SpecTactical == InitTactical /\ [][NextTactical]_vars

-----------------------------------------------------------------------------
(* The strategic layer on its own: blocks of every pressure tier, a Reset, *)
(* a clock; nothing receives from the outbound channel                     *)

InitStrategic ==
    InitWith({CreateAdjuster("batcher-slow-pid", c, 0) :
                 c \in BatcherSlowPIDConfigs})

NextStrategic == CallProcessBlockLayer \/ CallReset \/ Tick

SpecStrategic == InitStrategic /\ [][NextStrategic]_vars

-----------------------------------------------------------------------------
(* The hierarchical controller: blocks of every pressure tier, a Reset, a  *)
(* clock                                                                   *)

InitHierarchical ==
    InitWith({CreateAdjuster("hierarchical-pid", c, 0) :
                 c \in HierarchicalPIDConfigs})

\* gas used by a block given to the controller: an empty block (low DA
\* pressure) and a block at twice the target (emergency DA pressure)
HierGasInputs(targetBlockSize) == {0, 2 * targetBlockSize}

CallProcessBlockHier ==
    DoProcessBlock(HierGasInputs(adjuster.config.TargetBlockSize), MaxBlocks)

NextHierarchical == CallProcessBlockHier \/ CallReset \/ Tick

SpecHierarchical == InitHierarchical /\ [][NextHierarchical]_vars

-----------------------------------------------------------------------------
(* Every algorithm behind the FeeAdjuster interface, with a caller that    *)
(* reads between the blocks and writes to the slice GetBlocks gave it      *)

ReadGasInputs(targetBlockSize) == {0, 2 * targetBlockSize}

CallProcessBlockRead ==
    DoProcessBlock(ReadGasInputs(adjuster.config.TargetBlockSize), MaxBlocks)

InitReads ==
    InitWith({CreateAdjuster("eip1559",
                             SmallBase(1000, 900) @@ [MaxFeeChange |-> 125],
                             0)} \cup
             {CreateAdjuster("aimd", c, 0) :
                 c \in {a \in AIMDConfigs :
                            /\ a.WindowSize = 2
                            /\ a.InitialLearningRate = 100
                            /\ a.MinBaseFee = 900}} \cup
             {CreateAdjuster("pid", c, 0) :
                 c \in {a \in PIDConfigs :
                            a.WindowSize = 2 /\ a.MinBaseFee = 900}} \cup
             {CreateAdjuster("sequencer-fast-pid", c, 0) :
                 c \in SequencerFastPIDConfigs} \cup
             {CreateAdjuster("batcher-slow-pid", c, 0) :
                 c \in {b \in BatcherSlowPIDConfigs :
                            b.UpdateFrequency = 0}} \cup
             {CreateAdjuster("hierarchical-pid", c, 0) :
                 c \in {h \in HierarchicalPIDConfigs :
                            h.EnableCoordination}})

NextReads ==
    \/ CallProcessBlockRead
    \/ CallReset
    \/ CallGetCurrentState
    \/ CallGetMaxBlockSize
    \/ CallGetBlocks
    \/ CallerWritesBlock

SpecReads == InitReads /\ [][NextReads]_vars

-----------------------------------------------------------------------------
(* The update channels on long runs: enough sends and enough emitting      *)
(* blocks to fill a channel of ChannelCapacity updates                     *)

InitChannels ==
    InitWith({CreateAdjuster("sequencer-fast-pid", c, 0) :
                 c \in SequencerFastPIDConfigs} \cup
             {CreateAdjuster("batcher-slow-pid", c, 0) :
                 c \in {b \in BatcherSlowPIDConfigs :
                            b.UpdateFrequency = 0}})

NextChannels == CallProcessBlockSteady \/ CallSendParameterUpdateBurst

SpecChannels == InitChannels /\ [][NextChannels]_vars

\* the simulation loop calls ProcessBlock for every block of its scenario:
\* the call is taken as long as blocks remain
SpecLive ==
    InitTactical /\ [][NextChannels]_vars /\ WF_vars(CallProcessBlockSteady)

-----------------------------------------------------------------------------
(* Properties *)

LastBlock == adjuster.blocks[Len(adjuster.blocks)]

\* the adjuster a fresh construction with the same configuration gives
Fresh(fa) == CreateAdjuster(fa.type, fa.config, 0)

\* the adjuster after feeding the inputs, in order, to fa
RECURSIVE Replay(_, _)
Replay(fa, inputs) ==
    IF inputs = <<>> THEN fa
    ELSE ProcessBlock(Replay(fa, SubSeq(inputs, 1, Len(inputs) - 1)),
                      inputs[Len(inputs)], 0)

\* C1: after every ProcessBlock call, of every algorithm and for every
\* configuration, the base fee GetCurrentState reports is at least the
\* configured MinBaseFee.
C1_BaseFeeAtLeastMin ==
    lastOp = "ProcessBlock" =>
        GetCurrentState(adjuster).BaseFee >= adjuster.config.MinBaseFee

\* C3: an EIP-1559, AIMD or PID adjuster is, after every call and whatever
\* was processed before a Reset, in exactly the state (block log, base fee,
\* learning rate, integral, error history, reported state) of a freshly
\* constructed adjuster of the same configuration fed the inputs processed
\* since the last Reset.
C3_ResetThenReplayIsFresh ==
    (adjuster.type \in {"eip1559", "aimd", "pid"} /\ resets > 0) =>
        LET fresh == Replay(Fresh(adjuster), fed)
        IN  /\ adjuster = fresh
            /\ GetCurrentState(adjuster) = GetCurrentState(fresh)

\* C3 witness: a PID adjuster that was Reset after processing blocks has
\* replayed two blocks and again holds a non-zero integral and a moved fee.
C3_Witness ==
    /\ adjuster.type = "pid"
    /\ resets > 0
    /\ lastOp = "ProcessBlock"
    /\ Len(fed) >= 2
    /\ adjuster.integral # 0
    /\ adjuster.baseFee # adjuster.config.InitialBaseFee

\* C8: for AIMD with MinLearningRate <= MaxLearningRate, once WindowSize
\* blocks have been processed the learning rate GetCurrentState reports
\* lies within [MinLearningRate, MaxLearningRate].
C8_LearningRateWithinBounds ==
    (/\ adjuster.type = "aimd"
     /\ adjuster.config.MinLearningRate <= adjuster.config.MaxLearningRate
     /\ Len(adjuster.blocks) >= adjuster.config.WindowSize) =>
        /\ GetCurrentState(adjuster).LearningRate >=
               adjuster.config.MinLearningRate
        /\ GetCurrentState(adjuster).LearningRate <=
               adjuster.config.MaxLearningRate

\* the EIP-1559 rule on numbers whose products TLC can hold:
\* baseFee + ((baseFee * (gasUsed - target)) / target) / 8, both divisions
\* truncating toward zero, raised to the minimum
EIP1559Rule(baseFee, gasUsed, target, minBaseFee) ==
    LET product == baseFee * (gasUsed - target)
        perTarget == IF product >= 0 THEN product \div target
                     ELSE -((-product) \div target)
        change == IF perTarget >= 0 THEN perTarget \div 8
                  ELSE -((-perTarget) \div 8)
    IN  Max2(baseFee + change, minBaseFee)

\* C9: an EIP-1559 ProcessBlock leaves the base fee unchanged when gasUsed
\* equals the target and otherwise sets it to
\* baseFee + ((baseFee * (gasUsed - target)) / target) / 8 in truncating
\* integer arithmetic, raised to MinBaseFee; with target 15,000,000 and
\* initial base fee 1,000,000,000 one block of 30,000,000 gas gives
\* exactly 1,125,000,000.
C9_EIP1559Exact ==
    (adjuster.type = "eip1559" /\ lastOp = "ProcessBlock") =>
        /\ LastBlock.GasUsed = adjuster.config.TargetBlockSize =>
               adjuster.baseFee = LastBlock.BaseFee
        /\ (/\ LastBlock.GasUsed # adjuster.config.TargetBlockSize
            /\ LastBlock.BaseFee <= 100000) =>
               adjuster.baseFee =
                   EIP1559Rule(LastBlock.BaseFee, LastBlock.GasUsed,
                               adjuster.config.TargetBlockSize,
                               adjuster.config.MinBaseFee)
        /\ (adjuster.config = DefaultEIP1559Config /\ fed = <<30000000>>) =>
               adjuster.baseFee = 1125000000

\* C9 witness: the default configuration has processed one block of
\* 30,000,000 gas.
C9_Witness ==
    /\ adjuster.type = "eip1559"
    /\ adjuster.config = DefaultEIP1559Config
    /\ lastOp = "ProcessBlock"
    /\ fed = <<30000000>>
    /\ adjuster.baseFee = 1125000000

\* C10: a single EIP-1559 ProcessBlock call, whatever gasUsed it is given,
\* changes the base fee by at most one eighth of its previous value (stated
\* for a previous base fee at or above the minimum, so that the move is the
\* formula's and not the minimum's).
C10_ChangeAtMostOneEighth ==
    (/\ adjuster.type = "eip1559"
     /\ lastOp = "ProcessBlock"
     /\ LastBlock.BaseFee >= adjuster.config.MinBaseFee) =>
        8 * Abs(adjuster.baseFee - LastBlock.BaseFee) <= LastBlock.BaseFee

\* the utilization of block k of the log: gasUsed over the target
Utilization(k) ==
    FDiv(adjuster.blocks[k].GasUsed, adjuster.config.TargetBlockSize)

\* C2: the tactical layer enters emergency mode only on the second of two
\* consecutive blocks above EmergencyThreshold and leaves it only on the
\* third of three consecutive blocks below 0.8.
C2_EmergencyNeedsConsecutiveBlocks ==
    LET n == Len(adjuster.blocks) IN
    (adjuster.type = "sequencer-fast-pid" /\ lastOp = "ProcessBlock") =>
        /\ (~before.emergencyMode /\ adjuster.emergencyMode) =>
               /\ n >= 2
               /\ \A k \in (n - 1)..n :
                      Utilization(k) > adjuster.config.EmergencyThreshold
        /\ (before.emergencyMode /\ ~adjuster.emergencyMode) =>
               /\ n >= 3
               /\ \A k \in (n - 2)..n : Utilization(k) < 800

\* the parameter set the tactical layer computes with
CurrentParameters(fp) ==
    [Kp |-> fp.currentKp, Ki |-> fp.currentKi, Kd |-> fp.currentKd,
     TargetUtil |-> fp.currentTargetUtil,
     MaxFeeChange |-> fp.currentMaxFeeChange,
     ThrottlingActive |-> fp.throttlingActive,
     ThrottlingIntensity |-> fp.throttlingIntensity]

\* the parameter set an update carries
UpdateParameters(update) ==
    [Kp |-> update.NewKp, Ki |-> update.NewKi, Kd |-> update.NewKd,
     TargetUtil |-> update.NewTargetUtil,
     MaxFeeChange |-> update.NewMaxFeeChange,
     ThrottlingActive |-> update.ThrottlingActive,
     ThrottlingIntensity |-> update.ThrottlingIntensity]

\* C4: once the tactical layer was Reset, and as long as no update is sent
\* after the Reset, it has after every call the gains, target utilization,
\* max fee change, throttling state, base fee and block log of a fresh
\* instance fed the inputs processed since the Reset: no update sent before
\* the Reset is applied after it.
C4_TacticalResetRestoresAll ==
    (/\ adjuster.type = "sequencer-fast-pid"
     /\ resets > 0
     /\ Len(sent) = sentAtReset) =>
        LET fresh == Replay(Fresh(adjuster), fed)
        IN  /\ CurrentParameters(adjuster) = CurrentParameters(fresh)
            /\ adjuster.baseFee = fresh.baseFee
            /\ adjuster.blocks = fresh.blocks

\* C5: a Reset of the strategic layer restores the previously-sent
\* sequencer parameters to the initial ones and leaves the outbound update
\* channel empty, as they are in a fresh instance.
C5_StrategicResetRestoresAll ==
    (adjuster.type = "batcher-slow-pid" /\ lastOp = "Reset") =>
        /\ UpdateParameters(adjuster.sequencerParams) =
               UpdateParameters(initialParams(now))
        /\ adjuster.parameterUpdates = <<>>

\* C6: SendParameterUpdate can always be called and returns (it never waits
\* for room in the channel), and once the last update of a burst was sent
\* and the tactical layer has at least as many ProcessBlock calls ahead as
\* updates are pending, its parameters eventually equal those of the most
\* recently sent update.
C6_NewestUpdateEventuallyObserved ==
    /\ [](Len(sent) < MaxBurstSends => ENABLED CallSendParameterUpdateBurst)
    /\ (/\ Len(sent) = MaxBurstSends
        /\ MaxSteadyBlocks - processed >= Len(adjuster.parameterUpdates))
           ~> (/\ Len(sent) = MaxBurstSends
               /\ adjuster.parameterUpdates = <<>>
               /\ CurrentParameters(adjuster) =
                      UpdateParameters(sent[Len(sent)]))

\* C6 witness: more updates than the channel holds were sent, the channel
\* was drained by ProcessBlock calls and the tactical layer computes with
\* the parameters of the last update sent.
C6_Witness ==
    /\ adjuster.type = "sequencer-fast-pid"
    /\ Len(sent) = MaxBurstSends
    /\ Len(sent) > ChannelCapacity
    /\ lastOp = "ProcessBlock"
    /\ adjuster.parameterUpdates = <<>>
    /\ CurrentParameters(adjuster) = UpdateParameters(sent[Len(sent)])

\* a send found ChannelCapacity updates pending: the tactical layer's
\* SendParameterUpdate, or a strategic ProcessBlock whose update was due
SentOnFullTactical ==
    /\ adjuster.type = "sequencer-fast-pid"
    /\ lastOp = "SendParameterUpdate"
    /\ Len(before.parameterUpdates) = ChannelCapacity

SentOnFullStrategic ==
    /\ adjuster.type = "batcher-slow-pid"
    /\ lastOp = "ProcessBlock"
    /\ before.due
    /\ Len(before.parameterUpdates) = ChannelCapacity

\* the channel after the oldest pending update made room for the new one
EvictOldest(parameterUpdates, update) ==
    Append(Tail(parameterUpdates), update)

-----------------------------------------------------------------------------
\* every input fed since construction or the last Reset is the target
AllAtTarget == \A k \in 1..Len(fed) : fed[k] = adjuster.config.TargetBlockSize

\* C11: with the default AIMD configuration, as long as all blocks (up to
\* 10) are at the target, the base fee stays at its initial value after
\* every call, every block records the initial fee, the learning rate is
\* 0.1 after each of the first 9 calls and 0.09 after the 10th
C11_DefaultAIMDAtTarget ==
    (/\ adjuster.type = "aimd"
     /\ adjuster.config = DefaultAIMDConfig
     /\ AllAtTarget
     /\ Len(fed) <= 10)
        => /\ adjuster.baseFee = DefaultAIMDConfig.InitialBaseFee
           /\ \A k \in 1..Len(adjuster.blocks) :
                  adjuster.blocks[k].BaseFee = DefaultAIMDConfig.InitialBaseFee
           /\ Len(adjuster.blocks) = Len(fed)
           /\ adjuster.learningRate = IF Len(fed) < 10 THEN 100 ELSE 90

\* the 10th block at the target has been processed and the rate has decayed
C11_Witness ==
    /\ adjuster.type = "aimd"
    /\ adjuster.config = DefaultAIMDConfig
    /\ AllAtTarget
    /\ Len(fed) = 10
    /\ lastOp = "ProcessBlock"
    /\ adjuster.learningRate = 90

-----------------------------------------------------------------------------
\* the last call was ProcessBlock(targetBlockSize) on the default PID adjuster
DefaultPIDAtTarget ==
    /\ adjuster.type = "pid"
    /\ adjuster.config = DefaultPIDConfig
    /\ lastOp = "ProcessBlock"
    /\ LastBlock.GasUsed = adjuster.config.TargetBlockSize

\* the call's control output: the integral and the error history it read
\* are those the adjuster holds after the call
LastControlOutput == PIDControlOutput(adjuster, adjuster.lastError)

\* C12 as stated: with the default PID configuration every ProcessBlock call
\* at the target has zero error, zero control output and leaves the base
\* fee unchanged
C12_TargetBlockIsNoOp ==
    DefaultPIDAtTarget
        => /\ adjuster.lastError = 0
           /\ LastControlOutput = 0
           /\ adjuster.baseFee = LastBlock.BaseFee

\* C12 amended: the error of a block at the target is zero; the control
\* output is zero and the base fee unchanged when the integral and the
\* error history hold only zeros
C12_TargetBlockNoOpFromRest ==
    DefaultPIDAtTarget
        => /\ adjuster.lastError = 0
           /\ (/\ adjuster.integral = 0
               /\ \A k \in 1..Len(adjuster.errorHistory) :
                      adjuster.errorHistory[k] = 0)
                  => /\ LastControlOutput = 0
                     /\ adjuster.baseFee = LastBlock.BaseFee

\* a block at the target processed with the integral and history at rest,
\* after earlier blocks at the target
C12_Witness ==
    /\ DefaultPIDAtTarget
    /\ Len(fed) >= 2
    /\ AllAtTarget
    /\ adjuster.integral = 0
    /\ adjuster.baseFee = adjuster.config.InitialBaseFee

-----------------------------------------------------------------------------
\* C13: no ProcessBlock, GetCurrentState or Reset call of any algorithm
\* panics, for any configuration and input, a zero TargetBlockSize included
C13_NoCallPanics == ~panicked

-----------------------------------------------------------------------------
\* the last call was ProcessBlock on the hierarchical controller
HierProcessed ==
    adjuster.type = "hierarchical-pid" /\ lastOp = "ProcessBlock"

\* C14: a hierarchical ProcessBlock call is the strategic layer's
\* ProcessBlock, then - only if coordination is enabled and UpdateInterval
\* has elapsed since lastUpdateTime - the move of at most one pending update
\* (the oldest) from the strategic channel to the tactical layer, then the
\* tactical layer's ProcessBlock; so one call forwards at most one update,
\* none when the interval has not elapsed, and with a positive interval the
\* updates forwarded so far number at most the intervals elapsed
C14_StrategicThenOneUpdateThenTactical ==
    /\ HierProcessed =>
          LET b == before.controller
              gasUsed == fed[Len(fed)]
              t == before.at
              slow == SlowProcessBlock(b.slowLayer, gasUsed, t)
              due == /\ b.config.EnableCoordination
                     /\ t - b.lastUpdateTime >= b.config.UpdateInterval
              moves == due /\ slow.parameterUpdates # <<>>
          IN  /\ adjuster.slowLayer =
                     [slow EXCEPT !.parameterUpdates =
                                      IF moves THEN Tail(@) ELSE @]
              /\ adjuster.fastLayer =
                     FastProcessBlock(
                         IF moves
                         THEN SendParameterUpdate(b.fastLayer,
                                                  Head(slow.parameterUpdates))
                         ELSE b.fastLayer,
                         gasUsed, t)
              /\ adjuster.lastUpdateTime =
                     IF due THEN t ELSE b.lastUpdateTime
              /\ Len(sent) - before.forwarded = IF moves THEN 1 ELSE 0
    /\ adjuster.type = "hierarchical-pid" =>
          /\ Len(sent) <= processed
          /\ ~adjuster.config.EnableCoordination => sent = <<>>
          /\ adjuster.config.UpdateInterval > 0 =>
                 Len(sent) * adjuster.config.UpdateInterval <= now

\* the second call within one coordination interval: the first forwarded an
\* update, which the tactical layer applied in the same call; the second
\* found updates pending and forwarded none
C14_Witness ==
    /\ HierProcessed
    /\ adjuster.config.UpdateInterval > 0
    /\ Len(sent) = 1
    /\ before.forwarded = 1
    /\ before.at = adjuster.lastUpdateTime
    /\ adjuster.slowLayer.parameterUpdates # <<>>
    /\ adjuster.fastLayer.parameterUpdates = <<>>
    /\ adjuster.fastLayer.currentKp = sent[1].NewKp
    /\ adjuster.fastLayer.currentKp # adjuster.fastLayer.config.Kp

-----------------------------------------------------------------------------
\* C15: the hierarchical controller's GetCurrentState and GetBlocks are
\* those of its tactical layer: its base fee, effective learning rate,
\* utilizations and block log
C15_ReportsTacticalLayer ==
    adjuster.type = "hierarchical-pid" =>
        /\ GetCurrentState(adjuster) = FastGetCurrentState(adjuster.fastLayer)
        /\ GetCurrentState(adjuster).BaseFee = adjuster.fastLayer.baseFee
        /\ GetBlocks(adjuster) = adjuster.fastLayer.blocks

\* the layers disagree on the base fee and on the logged fees, and the
\* tactical layer's are reported
C15_Witness ==
    /\ HierProcessed
    /\ adjuster.slowLayer.baseFee # adjuster.fastLayer.baseFee
    /\ adjuster.slowLayer.blocks # adjuster.fastLayer.blocks
    /\ GetCurrentState(adjuster).BaseFee = adjuster.fastLayer.baseFee
    /\ GetBlocks(adjuster) = adjuster.fastLayer.blocks

-----------------------------------------------------------------------------
Reads == {"GetCurrentState", "GetMaxBlockSize", "GetBlocks"}

\* Reset restores everything a new adjuster holds: every algorithm but the
\* two that keep an update channel across Reset
ResetIsComplete(fa) ==
    fa.type \notin {"batcher-slow-pid", "hierarchical-pid"}

-----------------------------------------------------------------------------
-----------------------------------------------------------------------------
\* the configured window size of a windowed algorithm
ConfiguredWindow(fa) ==
    IF fa.type = "batcher-slow-pid" THEN fa.config.DAWindowSize
    ELSE fa.config.WindowSize

\* C18: AIMD, PID, the strategic and the tactical layer report
\* TargetUtilization = 0 and BurstUtilization = 0 while fewer blocks than the
\* configured window size were processed, and from then on the gas used by
\* the last window-size blocks divided by window size x targetBlockSize,
\* respectively window size x maxBlockSize
C18_UtilizationZeroUntilWindowFull ==
    adjuster.type \in {"aimd", "pid", "batcher-slow-pid", "sequencer-fast-pid"}
        => LET w == ConfiguredWindow(adjuster)
               blocks == GetBlocks(adjuster)
               n == Len(blocks)
               state == GetCurrentState(adjuster)
               windowSum == SeqSum([i \in 1..w |-> blocks[n - w + i].GasUsed])
           IN  IF n < w
               THEN /\ state.TargetUtilization = 0
                    /\ state.BurstUtilization = 0
               ELSE /\ state.TargetUtilization =
                           FDiv(windowSum, w * adjuster.config.TargetBlockSize)
                    /\ state.BurstUtilization =
                           FDiv(windowSum, w * GetMaxBlockSize(adjuster))

-----------------------------------------------------------------------------
(* The tactical layer under throttling: a caller sends throttling updates  *)
(* of every documented intensity, with the gains of the emergency tier or  *)
(* with a small proportional gain that keeps the output inside the limit   *)

ThrottlingIntensities == {0, 500, FloatUnit}

ThrottleGains == {<<1500, 150, 50>>, <<100, 0, 0>>}

ThrottleAt(n, gains, intensity) ==
    SequencerParamUpdate(n, gains[1], gains[2], gains[3], 700, 250, TRUE,
                         intensity, "Emergency throttling")

\* gas used by a block under throttling: empty, and the target
ThrottleGasInputs(targetBlockSize) == {0, targetBlockSize}

CallProcessBlockThrottle ==
    DoProcessBlock(ThrottleGasInputs(adjuster.config.TargetBlockSize),
                   MaxBlocks)

CallSendThrottleUpdate ==
    DoSendParameterUpdate({ThrottleAt(Len(sent) + 1, g, i) :
                               g \in ThrottleGains,
                               i \in ThrottlingIntensities},
                          MaxThrottleSends)

NextThrottle == CallProcessBlockThrottle \/ CallSendThrottleUpdate

SpecThrottle == InitTactical /\ [][NextThrottle]_vars

\* the tactical layer after ProcessBlock received the pending update, with
\* throttling switched off
Unthrottled(fp, t) ==
    [checkParameterUpdates(fp, t) EXCEPT !.throttlingActive = FALSE,
                                         !.parameterUpdates = <<>>]

\* C19: whenever ProcessBlock of the tactical layer lowers the base fee
\* while throttling of an intensity between 0.0 and 1.0 is active, the fee
\* falls no further than the same call lowers it from the same state with
\* throttling inactive
C19_ThrottlingNeverSpeedsDecrease ==
    [][(/\ processed' = processed + 1
        /\ ~panicked'
        /\ adjuster.type = "sequencer-fast-pid")
          => LET checked == checkParameterUpdates(adjuster, now)
                 gasUsed == fed'[Len(fed')]
                 unthrottled == FastProcessBlock(Unthrottled(adjuster, now),
                                                 gasUsed, now)
             IN  (/\ checked.throttlingActive
                  /\ checked.throttlingIntensity \in 0..FloatUnit
                  /\ adjuster'.baseFee < checked.baseFee)
                     => /\ adjuster'.baseFee >= unthrottled.baseFee
                        /\ checked.baseFee - adjuster'.baseFee
                               <= checked.baseFee - unthrottled.baseFee]_vars

\* a throttled ProcessBlock lowered the fee, above the minimum base fee
C19_Witness ==
    /\ adjuster.type = "sequencer-fast-pid"
    /\ lastOp = "ProcessBlock"
    /\ adjuster.throttlingActive
    /\ adjuster.throttlingIntensity > 0
    /\ adjuster.baseFee < LastBlock.BaseFee
    /\ adjuster.baseFee > adjuster.config.MinBaseFee

-----------------------------------------------------------------------------
(* FetchRange of a BlockFetcher over a short range of blocks: each call of *)
(* FetchBlockData by a worker succeeds or fails, and the context may be    *)
(* cancelled while a round runs.  The engine stands idle.                  *)

FirstBlockNumber == 100

\* ranges of no block up to MaxFetchBlocks blocks, with no round allowed up
\* to MaxFetchRounds rounds
FetchOptionsInputs ==
    {FetchOptions(FirstBlockNumber, FirstBlockNumber + n - 1, r) :
        n \in 0..MaxFetchBlocks, r \in 0..MaxFetchRounds}

\* FetchRange is called and runs up to the first round
CallFetchRange ==
    /\ fetcher.pc = "new"
    /\ LET remainingBlocks ==
               fetcher.options.StartBlock..fetcher.options.EndBlock
           started == [fetcher EXCEPT !.remainingBlocks = remainingBlocks]
       IN  fetcher' = IF 1 <= fetcher.options.MaxRetries
                         /\ remainingBlocks # {}
                      THEN StartRound(started, 1)
                      ELSE AfterRounds(started)
    /\ UNCHANGED <<simulatorVars, goroutines>>

\* a worker takes a job and calls FetchBlockData; fetchRound keeps the
\* block under its number, and drops an error
WorkerFetchesBlock ==
    /\ fetcher.pc = "round"
    /\ \E blockNumber \in fetcher.jobs, ok \in BOOLEAN :
          fetcher' =
              [fetcher EXCEPT
                  !.jobs = @ \ {blockNumber},
                  !.calls = @ \cup {[Round |-> fetcher.round,
                                     BlockNumber |-> blockNumber,
                                     Succeeded |-> ok]},
                  !.roundResults =
                      IF ok
                      THEN MapPut(@, BlockData(blockNumber).Number,
                                  BlockData(blockNumber))
                      ELSE @]
    /\ UNCHANGED <<simulatorVars, goroutines>>

\* every job of the round is done: fetchRound returns its results
RoundEnds ==
    /\ fetcher.pc = "round"
    /\ fetcher.jobs = {}
    /\ fetcher' = ProcessRoundResults(fetcher)
    /\ UNCHANGED <<simulatorVars, goroutines>>

\* the context is cancelled while a round runs
ContextCancelled ==
    /\ fetcher.pc = "round"
    /\ fetcher' = Return(fetcher, NoDataSet, "context canceled")
    /\ UNCHANGED <<simulatorVars, goroutines>>

InitFetch ==
    /\ InitSimulator({CreateAdjuster("eip1559", DefaultEIP1559Config, 0)})
    /\ fetcher \in {NewBlockFetcher(o) : o \in FetchOptionsInputs}
    /\ goroutines = NoGoroutines

NextFetch ==
    CallFetchRange \/ WorkerFetchesBlock \/ RoundEnds \/ ContextCancelled

SpecFetch == InitFetch /\ [][NextFetch]_vars

\* the block numbers of the range, and those a FetchBlockData call returned
FetchedRange == fetcher.options.StartBlock..fetcher.options.EndBlock

FetchedBlocks == {c.BlockNumber : c \in {d \in fetcher.calls : d.Succeeded}}

ReturnedDataSet == fetcher.pc = "returned" /\ fetcher.err = "nil"

\* C20: FetchRange returns a dataset only if every block of
\* StartBlock..EndBlock was fetched within MaxRetries rounds, and then the
\* dataset's blocks are StartBlock..EndBlock in ascending order, each once;
\* if a block is still missing after MaxRetries rounds it returns an error
\* and no dataset; a block fetched in one round is not fetched in a later one
C20_FetchRangeCompleteOrError ==
    /\ (fetcher.pc = "returned" /\ fetcher.err # "nil")
          => fetcher.dataset = NoDataSet
    /\ ReturnedDataSet
          => /\ FetchedRange \subseteq FetchedBlocks
             /\ \A c \in fetcher.calls : c.Round <= fetcher.options.MaxRetries
             /\ fetcher.dataset # NoDataSet
             /\ Len(fetcher.dataset.Blocks) = Cardinality(FetchedRange)
             /\ \A i \in 1..Len(fetcher.dataset.Blocks) :
                    fetcher.dataset.Blocks[i].Number =
                        fetcher.options.StartBlock + i - 1
    /\ (/\ fetcher.pc = "returned"
        /\ ~(FetchedRange \subseteq FetchedBlocks))
          => fetcher.err # "nil" /\ fetcher.dataset = NoDataSet
    /\ \A c, d \in fetcher.calls :
          (c.BlockNumber = d.BlockNumber /\ c.Succeeded /\ c # d)
              => d.Round < c.Round

\* a dataset of several blocks, one of them fetched in a second round
C20_Witness ==
    /\ ReturnedDataSet
    /\ Len(fetcher.dataset.Blocks) >= 2
    /\ \E c \in fetcher.calls : c.Round = 2 /\ c.Succeeded
    /\ \E c \in fetcher.calls : c.Round = 1 /\ c.Succeeded

-----------------------------------------------------------------------------
(* The tactical layer with a caller that sends updates between the blocks: *)
(* up to MaxSends updates wait in the channel when a block arrives         *)

NextPending == CallProcessBlockThrottle \/ CallSendParameterUpdate

SpecPending == InitTactical /\ [][NextPending]_vars

\* C21: ProcessBlock of the tactical layer runs whether or not an update is
\* pending: it takes the oldest pending update off the channel and applies
\* it, or leaves the parameters alone when the channel is empty, appends the
\* block, and computes that block's error and fee with the parameters in
\* force after that step
C21_AppliesOldestPendingFirst ==
    [][(/\ processed' = processed + 1
        /\ adjuster.type = "sequencer-fast-pid")
          => LET pending == adjuster.parameterUpdates
                 gasUsed == fed'[Len(fed')]
                 error == FDiv(gasUsed, adjuster.config.TargetBlockSize)
                              - adjuster'.currentTargetUtil
                 output == FastControlOutput(adjuster', error,
                                             adjuster'.throttlingActive,
                                             adjuster'.throttlingIntensity)
             IN  /\ Len(adjuster'.blocks) = Len(adjuster.blocks) + 1
                 /\ IF pending = <<>>
                    THEN /\ adjuster'.parameterUpdates = <<>>
                         /\ CurrentParameters(adjuster')
                                = CurrentParameters(adjuster)
                    ELSE /\ adjuster'.parameterUpdates = Tail(pending)
                         /\ CurrentParameters(adjuster')
                                = UpdateParameters(Head(pending))
                 /\ adjuster'.lastError = error
                 /\ adjuster'.baseFee =
                        Max2(adjuster.config.MinBaseFee,
                             ScaleBaseFee(adjuster.baseFee, output, 0))]_vars

\* a ProcessBlock call found two updates pending, applied the older and left
\* the newer in the channel
C21_Witness ==
    /\ adjuster.type = "sequencer-fast-pid"
    /\ lastOp = "ProcessBlock"
    /\ Len(before.parameterUpdates) = 2
    /\ before.parameterUpdates[1] # before.parameterUpdates[2]
    /\ adjuster.parameterUpdates = Tail(before.parameterUpdates)
    /\ CurrentParameters(adjuster) = UpdateParameters(before.parameterUpdates[1])

-----------------------------------------------------------------------------
(* The strategic layer with the absolute ranges of the default             *)
(* configuration, with ranges narrow enough for the proposed gains to      *)
(* leave them, and with ranges the initial gains lie outside of; an update *)
(* on every block or after a clock tick                                    *)

NarrowRanges(cfg) ==
    [cfg EXCEPT !.SequencerKpRange = <<700, 1000>>,
                !.SequencerKiRange = <<140, 180>>,
                !.SequencerKdRange = <<45, 55>>]

\* ranges that do not hold the gains of the initial configuration
RangesApart(cfg) ==
    [cfg EXCEPT !.SequencerKpRange = <<1000, 2000>>,
                !.SequencerKiRange = <<10, 100>>,
                !.SequencerKdRange = <<100, 200>>]

InitRanges ==
    InitWith({CreateAdjuster("batcher-slow-pid", c, 0) :
                 c \in BatcherSlowPIDConfigs \cup
                       {NarrowRanges(b) : b \in BatcherSlowPIDConfigs} \cup
                       {RangesApart(b) : b \in BatcherSlowPIDConfigs}})

NextRanges == CallProcessBlockLayer \/ Tick

SpecRanges == InitRanges /\ [][NextRanges]_vars

\* the gains of an update lie in the configured absolute ranges
WithinRanges(update, cfg) ==
    /\ cfg.SequencerKpRange[1] <= update.NewKp
    /\ update.NewKp <= cfg.SequencerKpRange[2]
    /\ cfg.SequencerKiRange[1] <= update.NewKi
    /\ update.NewKi <= cfg.SequencerKiRange[2]
    /\ cfg.SequencerKdRange[1] <= update.NewKd
    /\ update.NewKd <= cfg.SequencerKdRange[2]

\* the strategic layer has emitted an update
HasEmitted(bp) == bp.sequencerParams.Reason # "Initial configuration"

\* C22: every update the strategic layer emits, the last one computed and
\* every one waiting in the outbound channel, has NewKp within
\* SequencerKpRange, NewKi within SequencerKiRange and NewKd within
\* SequencerKdRange
C22_EmittedGainsWithinRanges ==
    adjuster.type = "batcher-slow-pid"
        => /\ HasEmitted(adjuster)
                  => WithinRanges(adjuster.sequencerParams, adjuster.config)
           /\ \A k \in 1..Len(adjuster.parameterUpdates) :
                  WithinRanges(adjuster.parameterUpdates[k], adjuster.config)

\* an emitted update carries a gain at the edge of its range: the proposed
\* gain was outside
C22_Witness ==
    /\ adjuster.type = "batcher-slow-pid"
    /\ lastOp = "ProcessBlock"
    /\ HasEmitted(adjuster)
    /\ adjuster.parameterUpdates # <<>>
    /\ adjuster.sequencerParams.NewKp = adjuster.config.SequencerKpRange[2]
    /\ adjuster.sequencerParams.NewKp < 1500
    /\ adjuster.sequencerParams.ThrottlingActive

-----------------------------------------------------------------------------
\* a ProcessBlock step of the strategic layer that emits an update
EmitsUpdate ==
    /\ processed' = processed + 1
    /\ ~panicked'
    /\ adjuster.type = "batcher-slow-pid"
    /\ now - adjuster.lastUpdateTime >= adjuster.config.UpdateFrequency

\* |new - previous| <= maxChange x previous
ChangeWithin(previous, new, maxChange) ==
    Abs(new - previous) * FloatUnit <= maxChange * previous

GainsRateLimited(previous, new, maxChange) ==
    /\ ChangeWithin(previous.NewKp, new.NewKp, maxChange)
    /\ ChangeWithin(previous.NewKi, new.NewKi, maxChange)
    /\ ChangeWithin(previous.NewKd, new.NewKd, maxChange)

-----------------------------------------------------------------------------
\* the average DA utilization over the metrics window, from the block log:
\* a block uses GasUsed / 1000 bytes of the DACapacity bytes
WindowDAUtilization(bp) ==
    LET n == Len(bp.blocks)
        w == Min2(n, bp.config.DAWindowSize)
    IN  TruncDiv(SeqSum([i \in 1..w |->
                            FDiv(bp.blocks[n - w + i].GasUsed \div 1000,
                                 DACapacity)]), w)

\* C24: an update the strategic layer emits has ThrottlingActive exactly
\* when the average DA utilization over the metrics window exceeds
\* MaxDAUtilization; it then has NewTargetUtil = 0.7 and ThrottlingIntensity
\* = min(0.5, 2 x (utilization - MaxDAUtilization)), and otherwise
\* ThrottlingActive = false, ThrottlingIntensity = 0 and NewTargetUtil = 1.0
C24_ThrottlingFollowsDAUtilization ==
    (/\ adjuster.type = "batcher-slow-pid"
     /\ lastOp = "ProcessBlock"
     /\ before.due)
        => LET utilization == WindowDAUtilization(adjuster)
               update == adjuster.sequencerParams
               excess == utilization - adjuster.config.MaxDAUtilization
           IN  /\ update.ThrottlingActive <=> excess > 0
               /\ IF excess > 0
                  THEN /\ update.NewTargetUtil = 700
                       /\ update.ThrottlingIntensity = Min2(500, 2 * excess)
                  ELSE /\ update.NewTargetUtil = FloatUnit
                       /\ update.ThrottlingIntensity = 0
               /\ adjuster.parameterUpdates # <<>>
               /\ Len(adjuster.parameterUpdates) > Len(before.parameterUpdates)
                      => adjuster.parameterUpdates[Len(adjuster.parameterUpdates)]
                             = update

\* an emitted update throttles below the largest intensity, after a window
\* whose newest block alone would not give that utilization
C24_Witness ==
    /\ adjuster.type = "batcher-slow-pid"
    /\ lastOp = "ProcessBlock"
    /\ before.due
    /\ Len(adjuster.blocks) >= 2
    /\ adjuster.sequencerParams.ThrottlingActive
    /\ adjuster.sequencerParams.ThrottlingIntensity > 0
    /\ adjuster.sequencerParams.ThrottlingIntensity < 500

-----------------------------------------------------------------------------
(* The PID adjuster and the tactical layer with integral limits a few      *)
(* blocks away from zero, on runs longer than the error window             *)

TightIntegral(cfg) == [cfg EXCEPT !.MaxIntegral = 2000, !.MinIntegral = -2000]

InitWindup ==
    InitWith({CreateAdjuster("pid", c, 0) :
                 c \in {p \in PIDConfigs :
                            p # DefaultPIDConfig /\ p.MinBaseFee = 0}} \cup
             {CreateAdjuster("sequencer-fast-pid", TightIntegral(c), 0) :
                 c \in SequencerFastPIDConfigs})

NextWindup == CallProcessBlockLayer \/ CallReset

SpecWindup == InitWindup /\ [][NextWindup]_vars

\* the error ProcessBlock computes for a block, no parameter update applied
BlockError(fa, gasUsed) ==
    FDiv(gasUsed, fa.config.TargetBlockSize)
        - (IF fa.type = "sequencer-fast-pid"
           THEN fa.config.InitialTargetUtilization
           ELSE FloatUnit)

\* C25: after every ProcessBlock call of the PID adjuster and of the
\* tactical layer the integral lies within [MinIntegral, MaxIntegral] and
\* the error history holds the errors of the most recent blocks, at most
\* WindowSize of them, oldest first
C25_IntegralAndHistoryBounded ==
    (adjuster.type \in {"pid", "sequencer-fast-pid"} /\ lastOp = "ProcessBlock")
        => LET n == Len(fed)
               w == Min2(n, adjuster.config.WindowSize)
           IN  /\ adjuster.config.MinIntegral <= adjuster.integral
               /\ adjuster.integral <= adjuster.config.MaxIntegral
               /\ Len(adjuster.errorHistory) <= adjuster.config.WindowSize
               /\ adjuster.errorHistory =
                      [i \in 1..w |-> BlockError(adjuster, fed[n - w + i])]
               /\ adjuster.lastError = BlockError(adjuster, fed[n])

\* the integral stands at its limit after more blocks than the window holds
C25_Witness ==
    /\ adjuster.type \in {"pid", "sequencer-fast-pid"}
    /\ lastOp = "ProcessBlock"
    /\ Len(fed) > adjuster.config.WindowSize
    /\ adjuster.integral = adjuster.config.MaxIntegral
    /\ adjuster.errorHistory[1] # adjuster.errorHistory[2]

-----------------------------------------------------------------------------
(* Goroutines calling one tactical layer concurrently.  A step of a        *)
(* goroutine is one step of its method's Program; sync.RWMutex admits one  *)
(* writer or any number of readers.                                        *)

\* method calls started in a run
MaxCalls == 3

Instruction(g) ==
    LET pc == goroutines.pc[g]
    IN  IF pc = Idle THEN "idle" ELSE Program(pc.method)[pc.index]

\* the position after the current step; past the last step the call returns
Advance(pc) ==
    IF pc.index < Len(Program(pc.method))
    THEN [pc EXCEPT !.index = @ + 1]
    ELSE Idle

CallMethod(g) ==
    /\ goroutines.pc[g] = Idle
    /\ goroutines.calls < MaxCalls
    /\ \E method \in Methods :
          goroutines' =
              [goroutines EXCEPT
                  !.pc[g] = [method |-> method, index |-> 1],
                  !.update[g] = 0,
                  !.targetUtil[g] = -1,
                  !.gains[g] = -1,
                  !.calls = @ + 1]
    /\ UNCHANGED <<simulatorVars, fetcher>>

\* checkParameterUpdates: receive one pending update, or take the default
\* branch and go on to the read of currentTargetUtil
ReceiveUpdate(g) ==
    /\ Instruction(g) = "receive"
    /\ goroutines' =
          IF goroutines.parameterUpdates # <<>>
          THEN [goroutines EXCEPT
                   !.update[g] = Head(goroutines.parameterUpdates),
                   !.parameterUpdates = Tail(@),
                   !.pc[g] = Advance(@)]
          ELSE [goroutines EXCEPT !.pc[g] = [@ EXCEPT !.index = 5]]
    /\ UNCHANGED <<simulatorVars, fetcher>>

SendUpdate(g) ==
    /\ Instruction(g) = "send"
    /\ goroutines' =
          [goroutines EXCEPT
              !.parameterUpdates = FastSend(@, goroutines.updates + 1),
              !.updates = @ + 1,
              !.pc[g] = Advance(@)]
    /\ UNCHANGED <<simulatorVars, fetcher>>

AcquireLock(g) ==
    /\ \/ /\ Instruction(g) = "Lock"
          /\ goroutines.mu.writer = 0
          /\ goroutines.mu.readers = {}
          /\ goroutines' = [goroutines EXCEPT !.mu.writer = g,
                                              !.pc[g] = Advance(@)]
       \/ /\ Instruction(g) = "RLock"
          /\ goroutines.mu.writer = 0
          /\ goroutines' = [goroutines EXCEPT !.mu.readers = @ \cup {g},
                                              !.pc[g] = Advance(@)]
    /\ UNCHANGED <<simulatorVars, fetcher>>

ReleaseLock(g) ==
    /\ \/ /\ Instruction(g) = "Unlock"
          /\ goroutines' = [goroutines EXCEPT !.mu.writer = 0,
                                              !.pc[g] = Advance(@)]
       \/ /\ Instruction(g) = "RUnlock"
          /\ goroutines' = [goroutines EXCEPT !.mu.readers = @ \ {g},
                                              !.pc[g] = Advance(@)]
    /\ UNCHANGED <<simulatorVars, fetcher>>

ReadsParameters(g) ==
    Instruction(g) \in {"readTargetUtil", "readGains", "readAll"}

WritesParameters(g) ==
    Instruction(g) \in {"applyParameterUpdate", "resetParameters"}

\* one read or write of the current parameters
AccessParameters(g) ==
    /\ ReadsParameters(g) \/ WritesParameters(g)
    /\ goroutines' =
          CASE Instruction(g) = "applyParameterUpdate" ->
                   [goroutines EXCEPT !.current = goroutines.update[g],
                                      !.pc[g] = Advance(@)]
            [] Instruction(g) = "resetParameters" ->
                   [goroutines EXCEPT !.current = 0,
                                      !.pc[g] = Advance(@)]
            [] Instruction(g) = "readTargetUtil" ->
                   [goroutines EXCEPT !.targetUtil[g] = goroutines.current,
                                      !.pc[g] = Advance(@)]
            [] Instruction(g) = "readGains" ->
                   [goroutines EXCEPT !.gains[g] = goroutines.current,
                                      !.pc[g] = Advance(@)]
            [] Instruction(g) = "readAll" ->
                   [goroutines EXCEPT !.pc[g] = Advance(@)]
    /\ UNCHANGED <<simulatorVars, fetcher>>

InitLocks ==
    InitWith({CreateAdjuster("sequencer-fast-pid",
                             DefaultSequencerFastPIDConfig, 0)})

NextLocks ==
    \E g \in Goroutines :
        \/ CallMethod(g)
        \/ ReceiveUpdate(g)
        \/ SendUpdate(g)
        \/ AcquireLock(g)
        \/ ReleaseLock(g)
        \/ AccessParameters(g)

SpecLocks == InitLocks /\ [][NextLocks]_vars

\* C26: every read of the tactical layer's current parameters happens with
\* the read lock held and every write with the write lock held, so no
\* goroutine reads or writes them while another goroutine writes them.
C26_ParametersAccessedUnderLock ==
    /\ \A g \in Goroutines :
          /\ ReadsParameters(g) => g \in goroutines.mu.readers
          /\ WritesParameters(g) => goroutines.mu.writer = g
    /\ \A g, h \in Goroutines :
          (g # h /\ WritesParameters(g))
              => ~(ReadsParameters(h) \/ WritesParameters(h))

\* Reset or applyParameterUpdate is writing while another goroutine's
\* ProcessBlock, GetCurrentState or GetDiagnostics waits for the read lock
C26_Witness ==
    \E g, h \in Goroutines :
        /\ g # h
        /\ WritesParameters(g)
        /\ Instruction(h) = "RLock"
        /\ goroutines.pc[h].method
               \in {"ProcessBlock", "GetCurrentState", "GetDiagnostics"}


\* C28: within one tactical ProcessBlock call the target utilization used
\* for the error and the gains, max fee change and throttling settings used
\* for the fee are read from the same parameter set, whatever other
\* goroutines do in between.
C28_OneParameterSetPerCall ==
    \A g \in Goroutines :
        (goroutines.pc[g].method = "ProcessBlock" /\ goroutines.gains[g] # -1)
            => goroutines.gains[g] = goroutines.targetUtil[g]


-----------------------------------------------------------------------------
(* The strategic layer against the standalone EIP-1559 adjuster: blocks   *)
(* and a clock; the configurations have a floor that falling fees run into *)

InitBaseline ==
    InitWith({CreateAdjuster("batcher-slow-pid",
                             [c EXCEPT !.MinBaseFee = 700], 0) :
                 c \in BatcherSlowPIDConfigs})

NextBaseline == CallProcessBlockLayer \/ Tick

SpecBaseline == InitBaseline /\ [][NextBaseline]_vars

\* a standalone EIP-1559 adjuster with the strategic layer's TargetBlockSize,
\* InitialBaseFee and MinBaseFee
StandaloneEIP1559(bp) ==
    NewEIP1559FeeAdjuster(
        [DefaultEIP1559Config EXCEPT
            !.TargetBlockSize = bp.config.TargetBlockSize,
            !.InitialBaseFee = bp.config.InitialBaseFee,
            !.MinBaseFee = bp.config.MinBaseFee])

\* C27: the strategic layer's base fee, and the base fee it logged with
\* every block, equal those of a standalone EIP-1559 adjuster with the same
\* TargetBlockSize, InitialBaseFee and MinBaseFee given the same inputs,
\* whatever the clock, the DA metrics and the emitted updates.
C27_StrategicFeeIsEIP1559 ==
    (adjuster.type = "batcher-slow-pid" /\ ~panicked) =>
        LET standalone == Replay(StandaloneEIP1559(adjuster), fed)
        IN  /\ adjuster.baseFee = standalone.baseFee
            /\ adjuster.blocks = standalone.blocks

\* three blocks were priced, the fee rose and fell by a truncated change,
\* the clock moved and the layer emitted an update
C27_Witness ==
    /\ adjuster.type = "batcher-slow-pid"
    /\ lastOp = "ProcessBlock"
    /\ Len(fed) >= 3
    /\ \E i \in 1..Len(fed) : fed[i] = 0
    /\ \E i \in 1..Len(fed) : fed[i] > adjuster.config.TargetBlockSize
    /\ adjuster.baseFee % 5 # 0
    /\ now > 0
    /\ HasEmitted(adjuster)


-----------------------------------------------------------------------------
(* The hierarchical controller's coordination: blocks and a clock *)

NextCoordination == CallProcessBlockHier \/ Tick

SpecCoordination == InitHierarchical /\ [][NextCoordination]_vars

\* C29: in the hierarchical controller the tactical layer's inbound channel
\* is empty when a ProcessBlock call starts and when it returns and holds at
\* most one update in between; an update coordinateLayers forwarded is
\* applied in the same call, and the block is priced as by a tactical layer
\* that had the update's parameters before the call.
C29_ForwardedUpdateAppliedInSameCall ==
    [][(/\ processed' = processed + 1
        /\ adjuster.type = "hierarchical-pid"
        /\ ~panicked')
          => LET blockGas == fed'[Len(fed')]
                 midCall == HierCoordinated(adjuster, blockGas, now)
                 inbound == midCall.fastLayer.parameterUpdates
             IN  /\ adjuster.fastLayer.parameterUpdates = <<>>
                 /\ Len(inbound) <= 1
                 /\ inbound = Forwarded(adjuster, blockGas, now)
                 /\ adjuster'.fastLayer.parameterUpdates = <<>>
                 /\ \A applied \in {applyParameterUpdate(adjuster.fastLayer,
                                            inbound[i], now) :
                                            i \in 1..Len(inbound)} :
                        adjuster'.fastLayer =
                            FastProcessBlock(applied, blockGas, now)]_vars

\* the call forwarded an update that changed the tactical gains, and the
\* strategic layer has further updates waiting
C29_Witness ==
    /\ adjuster.type = "hierarchical-pid"
    /\ lastOp = "ProcessBlock"
    /\ Len(sent) > before.forwarded
    /\ adjuster.fastLayer.currentKp = sent[Len(sent)].NewKp
    /\ adjuster.fastLayer.currentKp # adjuster.fastLayer.config.Kp
    /\ adjuster.fastLayer.parameterUpdates = <<>>
    /\ adjuster.slowLayer.parameterUpdates # <<>>


-----------------------------------------------------------------------------
(* The EIP-1559 update in machine arithmetic.  Go computes it in int64     *)
(* after converting the uint64 operands; here a word has WordBits bits, so *)
(* that TLC can enumerate operands up to the top of the unsigned range.    *)

WordBits == 8

MaxWordBlocks == 2

\* the signed value of the low WordBits bits of x (two's complement)
Wrap(x) ==
    LET m == x % (2 ^ WordBits)
    IN  IF m >= 2 ^ (WordBits - 1) THEN m - 2 ^ WordBits ELSE m

\* the base fee after adjustBaseFeeEIP1559 (and updateBaseFeeEIP1559): every
\* conversion, product, quotient and sum wraps to a signed word, and the
\* result is converted back to unsigned
adjustBaseFeeEIP1559Word(baseFee, gasUsed, targetGas, minBaseFee) ==
    IF gasUsed = targetGas THEN baseFee
    ELSE LET gasUsedDelta == Wrap(Wrap(gasUsed) - Wrap(targetGas))
             product == Wrap(Wrap(baseFee) * gasUsedDelta)
             quotient == Wrap(TruncDivSigned(product, Wrap(targetGas)))
             baseFeeChange == TruncDiv(quotient, 8)
             newBaseFee == Wrap(Wrap(baseFee) + baseFeeChange)
             floored == IF newBaseFee < Wrap(minBaseFee)
                        THEN Wrap(minBaseFee) ELSE newBaseFee
         IN  floored % (2 ^ WordBits)

EIP1559ProcessBlockWord(fa, gasUsed) ==
    [fa EXCEPT
        !.blocks = Append(fa.blocks,
                          Block(Len(fa.blocks) + 1, gasUsed, fa.baseFee)),
        !.baseFee = adjustBaseFeeEIP1559Word(fa.baseFee, gasUsed,
                        fa.config.TargetBlockSize, fa.config.MinBaseFee)]

\* operands at the edges of the signed and the unsigned range, and small ones
WordInputs ==
    {0, 1, 20, 40, 2 ^ (WordBits - 1) - 1, 2 ^ (WordBits - 1),
     2 ^ WordBits - 1}

CallProcessBlockWord ==
    /\ processed < MaxWordBlocks
    /\ \E gasUsed \in WordInputs :
          /\ adjuster' = EIP1559ProcessBlockWord(adjuster, gasUsed)
          /\ fed' = Append(fed, gasUsed)
    /\ processed' = processed + 1
    /\ lastOp' = "ProcessBlock"
    /\ before' = Snapshot(adjuster)
    /\ UNCHANGED <<now, sent, sentAtReset, resets, panicked, caller, fetcher,
                   goroutines>>

InitWord ==
    InitWith({NewEIP1559FeeAdjuster(
                  [DefaultEIP1559Config EXCEPT !.TargetBlockSize = t,
                                               !.InitialBaseFee = b,
                                               !.MinBaseFee = m]) :
                 t \in WordInputs \ {0}, b \in WordInputs, m \in {0, 1}})

SpecWord == InitWord /\ [][CallProcessBlockWord]_vars

\* C30: for all unsigned baseFee, gasUsed and TargetBlockSize > 0 the
\* EIP-1559 update is computed without signed wrap-around: the stored base
\* fee is the value of the formula over the integers.
C30_NoWrapAround ==
    (adjuster.type = "eip1559" /\ lastOp = "ProcessBlock") =>
        adjuster.baseFee =
            adjustBaseFeeEIP1559(LastBlock.BaseFee, LastBlock.GasUsed,
                                 adjuster.config.TargetBlockSize,
                                 adjuster.config.MinBaseFee)

====
